---- MODULE Spec2Model ----
(***************************************************************************)
(* Classroom code sync: the teacher-side broadcast server.                 *)
(*                                                                         *)
(*   ConnectionManager  src/src/extension/server/ConnectionManager.ts      *)
(*   MessageBroker      src/src/extension/server/MessageBroker.ts          *)
(*   WebSocketServer    src/unnamed/part_001                               *)
(*   extension commands src/esbuild.js (startTeacherServer, ...)           *)
(*                                                                         *)
(* Node runs every handler to completion, so each handler, timer callback  *)
(* and promise continuation is one action.  The ws sockets and the http     *)
(* listener are the environment: their events (message, pong, close,       *)
(* error, listening) happen at any time their state allows.                *)
(***************************************************************************)
EXTENDS Integers, Sequences, FiniteSets, TLC

(***************************************************************************)
(* Bounds of the model.                                                    *)
(***************************************************************************)
\* Capacity of the connection table.  The source fixes it at 50
\* (ConnectionManager.ts:21, and the literal 50 of part_001:373); the model
\* checks the same code with a small capacity so that the table fills up.
maxConnections == 2
\* Sockets the listener hands to the server over the whole run.
MaxSockets == 3
\* Messages recorded per socket (the first MaxSent it was sent).
MaxSent == 2
\* Probe periods the clock advances over.
MaxTicks == 2
\* Teaching sessions started over the whole run.
MaxSessions == 1
\* students that join while the presenter's editor is followed
MaxViewers == 1
\* documents closed over the whole run
MaxClosed == 1
\* content changes the presenter makes over the whole run
MaxEdits == 2
\* teaching sessions started over a run in which the presenter starts again
MaxRestarts == 2

(***************************************************************************)
(* Program constants.                                                      *)
(***************************************************************************)
pingInterval == 30000
timeoutInterval == 60000
PolicyViolation == 1008

VARIABLES
    connections,     \* ConnectionManager.connections: id -> ClientConnection
    pingTimer,       \* ConnectionManager.pingTimer is set
    timeoutTimer,    \* ConnectionManager.timeoutTimer is set
    pingAt,          \* time the probe interval next fires
    timeoutAt,       \* time the timeout interval next fires
    sockets,         \* the ws sockets that have not emitted 'close' yet
    nextId,          \* next fresh socket / nanoid()
    now,             \* Date.now()
    sessionConfig,   \* WebSocketServer.sessionConfig: 0 (undefined) or session id
    httpServer,      \* WebSocketServer.httpServer
    wsServer,        \* WebSocketServer.wsServer
    stopPc,          \* position of the stop() invocations of this server object
    serverInstance,  \* extension.ts serverInstance is non-null
    started,         \* sessions started so far (source of fresh session ids)
    lastOp,          \* the handler that ran last and what it returned
    settings,        \* the classroomSync.sync settings of the user
    activeTextEditor,\* vscode.window.activeTextEditor: 0 or its document
    closedDocuments, \* the documents whose isClosed is true
    documentText,    \* document.getText() of each document, as a version
                     \* number: every content change gives a new text
    fileSync,        \* the FileSyncManager of the session
    outbox,          \* the messages the handler that ran last broadcast
    codec,           \* a message on its way through JSON.stringify / JSON.parse
    filterCall       \* a call of FileFilter.shouldSyncFile and its result

vars == <<connections, pingTimer, timeoutTimer, pingAt, timeoutAt, sockets,
          nextId, now, sessionConfig, httpServer, wsServer, stopPc,
          serverInstance, started, lastOp, settings, activeTextEditor,
          closedDocuments, documentText, fileSync, outbox, codec, filterCall>>

managerVars == <<connections, pingTimer, timeoutTimer, pingAt, timeoutAt>>
sessionVars == <<sessionConfig, httpServer, wsServer, stopPc, serverInstance, started>>
editorVars == <<settings, activeTextEditor, closedDocuments, documentText>>
callVars == <<codec, filterCall>>

(***************************************************************************)
(* Map iteration: a JS Map iterates in insertion order; ids are handed out *)
(* in increasing order, so insertion order is id order.                    *)
(***************************************************************************)
RECURSIVE InsertionOrder(_)
InsertionOrder(S) ==
    IF S = {} THEN <<>>
    ELSE LET m == CHOOSE x \in S : \A y \in S : x <= y
         IN  <<m>> \o InsertionOrder(S \ {m})

MapDelete(f, k) == [x \in DOMAIN f \ {k} |-> f[x]]
Bool(b) == IF b THEN "true" ELSE "false"
MapSet(f, k, v) == [x \in DOMAIN f \cup {k} |-> IF x = k THEN v ELSE f[x]]

(***************************************************************************)
(* The ws socket, as far as the server uses it.  closeCalls and removed    *)
(* count what the server did to the socket and its table entry; handlers  *)
(* tells whether the server registered its handlers on it.                 *)
(***************************************************************************)
NewSocket ==
    [readyState |-> "OPEN", sent |-> <<>>, closeCode |-> 0, closeCalls |-> 0,
     removed |-> 0, handlers |-> FALSE]

\* ws.send(message) that did not throw; sent records the first MaxSent
\* messages sent on the socket
wsSend(socks, s, message) ==
    [socks EXCEPT ![s].sent = IF Len(@) < MaxSent THEN Append(@, message) ELSE @]

\* ws.close(code): the socket enters CLOSING at once
wsClose(socks, s, code) ==
    [socks EXCEPT ![s].readyState = "CLOSING", ![s].closeCode = code,
                  ![s].closeCalls = @ + 1]


(***************************************************************************)
(* ConnectionManager.  Its operations work on m = [conns, socks]: the      *)
(* table and the sockets the table's entries own.  The id of an entry is   *)
(* the number of its socket (nanoid() is fresh for every socket);          *)
(* connectedAt is written once and never read, and is left out.  Next to   *)
(* lastPing and isAlive an entry records sweeps: the probe sweeps that     *)
(* visited it since it was added or last answered (pong or ping message).  *)
(***************************************************************************)
M(conns, socks) == [conns |-> conns, socks |-> socks]

ClientConnection(t) == [lastPing |-> t, isAlive |-> TRUE, sweeps |-> 0]

\* Variant: the capacity test is off by one (> for >=).
addConnection_offByOne(m, ws, t) ==
    IF Cardinality(DOMAIN m.conns) > maxConnections
    THEN [conns |-> m.conns, socks |-> m.socks, ret |-> 0]
    ELSE [conns |-> MapSet(m.conns, ws, ClientConnection(t)),
          socks |-> [m.socks EXCEPT ![ws].handlers = TRUE], ret |-> ws]

\* addConnection(ws): null (0) when the table is full
addConnection(m, ws, t) ==
    IF Cardinality(DOMAIN m.conns) >= maxConnections
    THEN [conns |-> m.conns, socks |-> m.socks, ret |-> 0]
    ELSE [conns |-> MapSet(m.conns, ws, ClientConnection(t)),
          socks |-> [m.socks EXCEPT ![ws].handlers = TRUE], ret |-> ws]

\* Variant: the entry is closed but connections.delete is forgotten.
removeConnection_noDelete(m, clientId) ==
    IF clientId \in DOMAIN m.conns
    THEN LET closed == IF m.socks[clientId].readyState = "OPEN"
                       THEN wsClose(m.socks, clientId, 0)
                       ELSE m.socks
         IN  [conns |-> m.conns,
              socks |-> [closed EXCEPT ![clientId].removed = @ + 1],
              ret |-> TRUE]
    ELSE [conns |-> m.conns, socks |-> m.socks, ret |-> FALSE]

\* Variant: true is returned whether or not the id was in the table.
removeConnection_alwaysTrue(m, clientId) ==
    IF clientId \in DOMAIN m.conns
    THEN LET closed == IF m.socks[clientId].readyState = "OPEN"
                       THEN wsClose(m.socks, clientId, 0)
                       ELSE m.socks
         IN  [conns |-> MapDelete(m.conns, clientId),
              socks |-> [closed EXCEPT ![clientId].removed = @ + 1],
              ret |-> TRUE]
    ELSE [conns |-> m.conns, socks |-> m.socks, ret |-> TRUE]

\* removeConnection(clientId)
removeConnection(m, clientId) ==
    IF clientId \in DOMAIN m.conns
    THEN LET closed == IF m.socks[clientId].readyState = "OPEN"
                       THEN wsClose(m.socks, clientId, 0)
                       ELSE m.socks
         IN  [conns |-> MapDelete(m.conns, clientId),
              socks |-> [closed EXCEPT ![clientId].removed = @ + 1],
              ret |-> TRUE]
    ELSE [conns |-> m.conns, socks |-> m.socks, ret |-> FALSE]

RECURSIVE removeEach(_, _)
removeEach(m, ids) ==
    IF ids = <<>> THEN m
    ELSE LET r == removeConnection(m, Head(ids))
         IN  removeEach(M(r.conns, r.socks), Tail(ids))

\* Variant: the try/catch is around the loop, so the first send() that
\* throws ends the pass.
RECURSIVE broadcastPass_abortOnThrow(_, _, _, _, _)
broadcastPass_abortOnThrow(m, ids, message, throws, dead) ==
    IF ids = <<>> THEN [conns |-> m.conns, socks |-> m.socks, dead |-> dead]
    ELSE LET id == Head(ids) IN
         IF m.socks[id].readyState = "OPEN"
         THEN IF id \in throws
              THEN [conns |-> m.conns, socks |-> m.socks, dead |-> Append(dead, id)]
              ELSE broadcastPass_abortOnThrow(
                       M(m.conns, wsSend(m.socks, id, message)),
                       Tail(ids), message, throws, dead)
         ELSE broadcastPass_abortOnThrow(m, Tail(ids), message, throws,
                                         Append(dead, id))

\* Variant: a dead connection is removed inside the forEach, while the pass
\* is still iterating.
RECURSIVE broadcastPass_removeInPass(_, _, _, _, _)
broadcastPass_removeInPass(m, ids, message, throws, dead) ==
    IF ids = <<>> THEN [conns |-> m.conns, socks |-> m.socks, dead |-> dead]
    ELSE LET id == Head(ids) IN
         IF m.socks[id].readyState = "OPEN" /\ id \notin throws
         THEN broadcastPass_removeInPass(
                  M(m.conns, wsSend(m.socks, id, message)),
                  Tail(ids), message, throws, dead)
         ELSE LET r == removeConnection(m, id)
              IN  broadcastPass_removeInPass(M(r.conns, r.socks), Tail(ids),
                                             message, throws, Append(dead, id))

\* the forEach pass of broadcast: send to each open socket, collect the dead
RECURSIVE broadcastPass(_, _, _, _, _)
broadcastPass(m, ids, message, throws, dead) ==
    IF ids = <<>> THEN [conns |-> m.conns, socks |-> m.socks, dead |-> dead]
    ELSE LET id == Head(ids) IN
         IF m.socks[id].readyState = "OPEN"
         THEN IF id \in throws
              THEN broadcastPass(m, Tail(ids), message, throws, Append(dead, id))
              ELSE broadcastPass(M(m.conns, wsSend(m.socks, id, message)),
                                 Tail(ids), message, throws, dead)
         ELSE broadcastPass(m, Tail(ids), message, throws, Append(dead, id))

\* broadcast(message); throws = the sockets whose send() throws
broadcast(m, message, throws) ==
    LET pass == broadcastPass(m, InsertionOrder(DOMAIN m.conns), message,
                              throws, <<>>)
    IN  removeEach(M(pass.conns, pass.socks), pass.dead)

\* sendToClient(clientId, message); throws = send() throws
sendToClient(m, clientId, message, throws) ==
    IF clientId \in DOMAIN m.conns /\ m.socks[clientId].readyState = "OPEN"
    THEN IF throws
         THEN LET r == removeConnection(m, clientId)
              IN  [conns |-> r.conns, socks |-> r.socks, ret |-> FALSE]
         ELSE [conns |-> m.conns, socks |-> wsSend(m.socks, clientId, message),
               ret |-> TRUE]
    ELSE [conns |-> m.conns, socks |-> m.socks, ret |-> FALSE]

\* Variant: an id that is not in the table gets a fresh entry.
updatePing_upsert(m, clientId, t) ==
    M(MapSet(m.conns, clientId, ClientConnection(t)), m.socks)

\* Variant: the time is recorded but isAlive is not set.
updatePing_timeOnly(m, clientId, t) ==
    IF clientId \in DOMAIN m.conns
    THEN M([m.conns EXCEPT ![clientId].lastPing = t], m.socks)
    ELSE m

\* updatePing(clientId)
updatePing(m, clientId, t) ==
    IF clientId \in DOMAIN m.conns
    THEN M([m.conns EXCEPT ![clientId].lastPing = t, ![clientId].isAlive = TRUE,
                           ![clientId].sweeps = 0],
           m.socks)
    ELSE m

\* the ws.on('pong') handler registered by addConnection
onPong(m, clientId, t) ==
    IF clientId \in DOMAIN m.conns
    THEN M([m.conns EXCEPT ![clientId].isAlive = TRUE, ![clientId].lastPing = t,
                           ![clientId].sweeps = 0],
           m.socks)
    ELSE m

\* Variant: an entry that did not answer is pinged again, not removed.
RECURSIVE probeEach_pingOnly(_, _, _)
probeEach_pingOnly(m, ids, pinged) ==
    IF ids = <<>> THEN [conns |-> m.conns, socks |-> m.socks, pinged |-> pinged]
    ELSE LET id == Head(ids)
             marked == [m.conns EXCEPT ![id].isAlive = FALSE,
                                       ![id].sweeps = @ + 1]
         IN  probeEach_pingOnly(M(marked, m.socks), Tail(ids),
                                IF m.socks[id].readyState = "OPEN"
                                THEN pinged \cup {id} ELSE pinged)

\* Variant: the probe is sent but the entry is not marked as waiting for
\* its answer.
RECURSIVE probeEach_noMark(_, _, _)
probeEach_noMark(m, ids, pinged) ==
    IF ids = <<>> THEN [conns |-> m.conns, socks |-> m.socks, pinged |-> pinged]
    ELSE LET id == Head(ids) IN
         IF ~m.conns[id].isAlive
         THEN LET r == removeConnection(m, id)
              IN  probeEach_noMark(M(r.conns, r.socks), Tail(ids), pinged)
         ELSE probeEach_noMark(m, Tail(ids),
                               IF m.socks[id].readyState = "OPEN"
                               THEN pinged \cup {id} ELSE pinged)

\* the pingTimer callback; pinged collects the sockets ws.ping() was
\* called on.  Deleting the entry being visited does not disturb the Map's
\* forEach.
RECURSIVE probeEach(_, _, _)
probeEach(m, ids, pinged) ==
    IF ids = <<>> THEN [conns |-> m.conns, socks |-> m.socks, pinged |-> pinged]
    ELSE LET id == Head(ids) IN
         IF ~m.conns[id].isAlive
         THEN LET r == removeConnection(m, id)
              IN  probeEach(M(r.conns, r.socks), Tail(ids), pinged)
         ELSE LET marked == [m.conns EXCEPT ![id].isAlive = FALSE,
                                            ![id].sweeps = @ + 1]
              IN  probeEach(M(marked, m.socks), Tail(ids),
                            IF m.socks[id].readyState = "OPEN"
                            THEN pinged \cup {id} ELSE pinged)

probeSweep(m) == probeEach(m, InsertionOrder(DOMAIN m.conns), {})

\* Variant: the timeout is one probe period long.
RECURSIVE timeoutEach_oneProbePeriod(_, _, _)
timeoutEach_oneProbePeriod(m, ids, t) ==
    IF ids = <<>> THEN m
    ELSE LET id == Head(ids) IN
         IF t - m.conns[id].lastPing >= pingInterval
         THEN LET r == removeConnection(m, id)
              IN  timeoutEach_oneProbePeriod(M(r.conns, r.socks), Tail(ids), t)
         ELSE timeoutEach_oneProbePeriod(m, Tail(ids), t)

\* Variant: only an entry that is also waiting for a pong is removed.
RECURSIVE timeoutEach_onlyPending(_, _, _)
timeoutEach_onlyPending(m, ids, t) ==
    IF ids = <<>> THEN m
    ELSE LET id == Head(ids) IN
         IF t - m.conns[id].lastPing > timeoutInterval /\ ~m.conns[id].isAlive
         THEN LET r == removeConnection(m, id)
              IN  timeoutEach_onlyPending(M(r.conns, r.socks), Tail(ids), t)
         ELSE timeoutEach_onlyPending(m, Tail(ids), t)

\* the timeoutTimer callback
RECURSIVE timeoutEach(_, _, _)
timeoutEach(m, ids, t) ==
    IF ids = <<>> THEN m
    ELSE LET id == Head(ids) IN
         IF t - m.conns[id].lastPing > timeoutInterval
         THEN LET r == removeConnection(m, id)
              IN  timeoutEach(M(r.conns, r.socks), Tail(ids), t)
         ELSE timeoutEach(m, Tail(ids), t)

timeoutSweep(m, t) == timeoutEach(m, InsertionOrder(DOMAIN m.conns), t)

\* the forEach of disconnectAll followed by connections.clear()
RECURSIVE closeEach(_, _)
closeEach(socks, ids) ==
    IF ids = <<>> THEN socks
    ELSE LET id == Head(ids)
             closed == IF socks[id].readyState = "OPEN"
                       THEN wsClose(socks, id, 0) ELSE socks
         IN  closeEach([closed EXCEPT ![id].removed = @ + 1], Tail(ids))

EmptyMap == [x \in {} |-> 0]

\* stopHeartbeat(): both intervals are cleared
stopHeartbeat == [pingTimer |-> FALSE, timeoutTimer |-> FALSE]

\* Variant: connections.clear() is forgotten.
disconnectAll_noClear(m) ==
    [conns |-> m.conns,
     socks |-> closeEach(m.socks, InsertionOrder(DOMAIN m.conns)),
     pingTimer |-> stopHeartbeat.pingTimer,
     timeoutTimer |-> stopHeartbeat.timeoutTimer]

\* disconnectAll()
disconnectAll(m) ==
    [conns |-> EmptyMap,
     socks |-> closeEach(m.socks, InsertionOrder(DOMAIN m.conns)),
     pingTimer |-> stopHeartbeat.pingTimer,
     timeoutTimer |-> stopHeartbeat.timeoutTimer]

(***************************************************************************)
(* MessageBroker: outbound messages and the inbound router.                *)
(***************************************************************************)
\* Every message also carries timestamp: Date.now(), which nothing in the
\* server reads; the model leaves it out.
ConnectedMessage(sessionId) == [type |-> "connected", sessionId |-> sessionId]
ServerClosingMessage(reason) == [type |-> "server_closing", message |-> reason]
PongMessage == [type |-> "pong"]

\* Variant: the session id is not filled in.
sendConnected_noSession(m, clientId, sessionId, throws) ==
    sendToClient(m, clientId, ConnectedMessage(0), throws)

\* sendConnected(clientId, sessionId)
sendConnected(m, clientId, sessionId, throws) ==
    sendToClient(m, clientId, ConnectedMessage(sessionId), throws)

\* sendPong(clientId)
sendPong(m, clientId, throws) ==
    sendToClient(m, clientId, PongMessage, throws)

\* broadcastServerClosing(reason)
broadcastServerClosing(m, reason, throws) ==
    broadcast(m, ServerClosingMessage(reason), throws)

\* The frames a viewer can send, and what JSON.parse makes of each:
\* a syntax error, the value null, or an object with or without a type.
RawMessages ==
    {"not json", "null", "{}", "{type:ping}", "{type:auth}", "{type:pong}",
     "{type:hello}"}

JSONParse(raw) ==
    CASE raw = "not json"     -> [ok |-> FALSE, null |-> FALSE, type |-> "undefined"]
      [] raw = "null"         -> [ok |-> TRUE,  null |-> TRUE,  type |-> "undefined"]
      [] raw = "{}"           -> [ok |-> TRUE,  null |-> FALSE, type |-> "undefined"]
      [] raw = "{type:ping}"  -> [ok |-> TRUE,  null |-> FALSE, type |-> "ping"]
      [] raw = "{type:auth}"  -> [ok |-> TRUE,  null |-> FALSE, type |-> "auth"]
      [] raw = "{type:pong}"  -> [ok |-> TRUE,  null |-> FALSE, type |-> "pong"]
      [] raw = "{type:hello}" -> [ok |-> TRUE,  null |-> FALSE, type |-> "hello"]

\* Variant: the auth case has no break and falls through to the ping case.
handleStudentMessage_authFallsThrough(m, clientId, rawMessage, t, throws) ==
    LET message == JSONParse(rawMessage) IN
    IF ~message.ok \/ message.null
    THEN [conns |-> m.conns, socks |-> m.socks, ret |-> "dropped", send |-> "none"]
    ELSE IF message.type \in {"ping", "auth"}
    THEN LET u == updatePing(m, clientId, t)
             r == sendPong(u, clientId, throws)
         IN  [conns |-> r.conns, socks |-> r.socks,
              ret |-> IF message.type = "ping" THEN "ping" ELSE "ignored",
              send |-> Bool(r.ret)]
    ELSE [conns |-> m.conns, socks |-> m.socks, ret |-> "ignored", send |-> "none"]

\* handleStudentMessage(clientId, rawMessage).  A syntax error, and the
\* TypeError of reading .type of null, are caught and logged: the message
\* is dropped.  A message of another kind than ping is ignored.
handleStudentMessage(m, clientId, rawMessage, t, throws) ==
    LET message == JSONParse(rawMessage) IN
    IF ~message.ok
    THEN [conns |-> m.conns, socks |-> m.socks, ret |-> "dropped", send |-> "none"]
    ELSE IF message.null
    THEN [conns |-> m.conns, socks |-> m.socks, ret |-> "dropped", send |-> "none"]
    ELSE IF message.type = "ping"
    THEN LET u == updatePing(m, clientId, t)
             r == sendPong(u, clientId, throws)
         IN  [conns |-> r.conns, socks |-> r.socks, ret |-> "ping",
              send |-> Bool(r.ret)]
    ELSE IF message.type = "auth"
    THEN [conns |-> m.conns, socks |-> m.socks, ret |-> "ignored", send |-> "none"]
    ELSE [conns |-> m.conns, socks |-> m.socks, ret |-> "ignored", send |-> "none"]

\* Variant: a frame that does not parse costs the viewer its connection.
onMessage_closeOnError(m, clientId, rawMessage, requireAuth, t, throws) ==
    LET message == JSONParse(rawMessage) IN
    IF ~message.ok \/ (requireAuth /\ message.null)
    THEN LET r == removeConnection(m, clientId)
         IN  [conns |-> r.conns, socks |-> r.socks, ret |-> "dropped",
              send |-> "none"]
    ELSE handleStudentMessage(m, clientId, rawMessage, t, throws)

\* the ws.on('message') handler of handleWebSocketConnection
onMessage(m, clientId, rawMessage, requireAuth, t, throws) ==
    LET message == JSONParse(rawMessage) IN
    IF ~message.ok
    THEN [conns |-> m.conns, socks |-> m.socks, ret |-> "dropped", send |-> "none"]
    ELSE IF requireAuth /\ message.null
    THEN [conns |-> m.conns, socks |-> m.socks, ret |-> "dropped", send |-> "none"]
    ELSE handleStudentMessage(m, clientId, rawMessage, t, throws)

(***************************************************************************)
(* WebSocketServer.                                                        *)
(***************************************************************************)
\* Variant: the socket is registered first and the capacity tested after,
\* and the entry of a rejected socket is left behind.
handleWebSocketConnection_addFirst(m, ws, sessionId, t, throws) ==
    LET a == M(MapSet(m.conns, ws, ClientConnection(t)),
               [m.socks EXCEPT ![ws].handlers = TRUE])
    IN  IF Cardinality(DOMAIN a.conns) > maxConnections
        THEN [conns |-> a.conns, socks |-> wsClose(a.socks, ws, PolicyViolation),
              ret |-> "rejected", send |-> "none"]
        ELSE IF sessionId # 0
        THEN LET r == sendConnected(a, ws, sessionId, throws)
             IN  [conns |-> r.conns, socks |-> r.socks, ret |-> "accepted",
                  send |-> Bool(r.ret)]
        ELSE [conns |-> a.conns, socks |-> a.socks, ret |-> "accepted",
              send |-> "none"]

\* handleWebSocketConnection(ws, req)
handleWebSocketConnection(m, ws, sessionId, t, throws) ==
    IF Cardinality(DOMAIN m.conns) >= maxConnections
    THEN [conns |-> m.conns, socks |-> wsClose(m.socks, ws, PolicyViolation),
          ret |-> "rejected", send |-> "none"]
    ELSE LET a == addConnection(m, ws, t) IN
         IF a.ret = 0
         THEN [conns |-> a.conns, socks |-> wsClose(a.socks, ws, PolicyViolation),
               ret |-> "rejected", send |-> "none"]
         ELSE IF sessionId # 0
         THEN LET r == sendConnected(M(a.conns, a.socks), a.ret, sessionId, throws)
              IN  [conns |-> r.conns, socks |-> r.socks, ret |-> "accepted",
                   send |-> Bool(r.ret)]
         ELSE [conns |-> a.conns, socks |-> a.socks, ret |-> "accepted",
               send |-> "none"]

\* lastOp: the handler that has just run, the socket it ran for (0 for a
\* message that was dropped or ignored), what it returned, what the
\* sendToClient it called returned, and (ids) the sockets a probe sweep
\* pinged or the sockets whose send() threw during a broadcast.  Handlers
\* that return nothing and call nothing leave no record.  The record is
\* cleared when control is back in the event loop, and the next handler
\* runs from there.
Op(op, id, ret, send) ==
    [op |-> op, id |-> id, ret |-> ret, send |-> send, ids |-> {},
     document |-> ""]
NoOp == Op("none", 0, "none", "none")

\* stop(), from the wsServer test on: runs after the grace period, or at
\* once when no viewer is connected
stopClose(m, timers, ws) ==
    IF ws # "undefined"
    THEN LET d == disconnectAll(m)
         IN  [conns |-> d.conns, socks |-> d.socks, pingTimer |-> d.pingTimer,
              timeoutTimer |-> d.timeoutTimer, wsServer |-> "closing",
              pc |-> "wsClosing", ret |-> "disconnectAll"]
    ELSE [conns |-> m.conns, socks |-> m.socks, pingTimer |-> timers.pingTimer,
          timeoutTimer |-> timers.timeoutTimer, wsServer |-> ws,
          pc |-> "done", ret |-> "none"]

\* Variant: no server_closing and no grace period, the connections are closed
\* at once.
stop_noBroadcast(m, timers, ws, throws) == stopClose(m, timers, ws)

\* stop(), up to its first suspension
stop(m, timers, ws, throws) ==
    IF Cardinality(DOMAIN m.conns) > 0
    THEN LET b == broadcastServerClosing(m, "Server is shutting down", throws)
         IN  [conns |-> b.conns, socks |-> b.socks, pingTimer |-> timers.pingTimer,
              timeoutTimer |-> timers.timeoutTimer, wsServer |-> ws,
              pc |-> "grace", ret |-> "server_closing"]
    ELSE stopClose(m, timers, ws)

(***************************************************************************)
(* FileFilter (src/src/extension/sync/FileFilter.ts).  A path is the       *)
(* sequence of its segments and a segment the sequence of its characters;  *)
(* the model's alphabet has the runs of characters that always occur       *)
(* together ("env", "node_modules") as single characters.  All paths are   *)
(* absolute POSIX paths.                                                   *)
(***************************************************************************)
GLOBSTAR == <<"**">>
DotDot == <<"..">>
Dot == <<".">>

\* vscode.workspace.workspaceFolders[0].uri.fsPath
WorkspaceRoot == << <<"ws">> >>

\* the default of config.get('excludePatterns', [...])
DefaultExcludePatterns ==
    << <<GLOBSTAR, <<".", "env">> >>,
       <<GLOBSTAR, <<".", "env", ".", "*">> >>,
       <<GLOBSTAR, <<"node_modules">>, GLOBSTAR>>,
       <<GLOBSTAR, <<".", "git">>, GLOBSTAR>>,
       <<GLOBSTAR, <<"*", ".", "key">> >>,
       <<GLOBSTAR, <<"*", ".", "pem">> >>,
       <<GLOBSTAR, <<"*", ".", "p12">> >>,
       <<GLOBSTAR, <<"*", ".", "pfx">> >>,
       <<GLOBSTAR, <<"credentials", ".", "json">> >>,
       <<GLOBSTAR, <<".", "vscode">>, GLOBSTAR>> >>

\* the default of config.get('maxFileSize', 1048576)
DefaultMaxFileSize == 1048576

\* A setting is [set, value]: whether the user configured it, and to what.
Unset == [set |-> FALSE, value |-> <<>>]
Setting(value) == [set |-> TRUE, value |-> value]

\* config.get(key, defaultValue)
configGet(setting, defaultValue) ==
    IF setting.set THEN setting.value ELSE defaultValue

\* no setting of classroomSync.sync is configured
DefaultSettings ==
    [includePatterns |-> Unset, excludePatterns |-> Unset, maxFileSize |-> Unset]

\* loadConfiguration()
loadConfiguration(config) ==
    [includePatterns |-> configGet(config.includePatterns, <<>>),
     excludePatterns |-> configGet(config.excludePatterns, DefaultExcludePatterns),
     maxFileSize |-> configGet(config.maxFileSize, DefaultMaxFileSize)]

\* path.normalize: '.' segments dropped, 'x/..' resolved ('..' at the root
\* stays at the root)
RECURSIVE normalizeFrom(_, _)
normalizeFrom(done, rest) ==
    IF rest = <<>> THEN done
    ELSE IF Head(rest) = Dot THEN normalizeFrom(done, Tail(rest))
    ELSE IF Head(rest) = DotDot
    THEN normalizeFrom(IF done = <<>> THEN <<>>
                       ELSE SubSeq(done, 1, Len(done) - 1), Tail(rest))
    ELSE normalizeFrom(Append(done, Head(rest)), Tail(rest))

normalize(filePath) == normalizeFrom(<<>>, filePath)

\* the characters of a path as one string: '/' before every segment
RECURSIVE fsPath(_)
fsPath(segments) ==
    IF segments = <<>> THEN <<>>
    ELSE <<"/">> \o Head(segments) \o fsPath(Tail(segments))

\* String.prototype.startsWith
startsWith(str, prefix) ==
    /\ Len(prefix) <= Len(str)
    /\ SubSeq(str, 1, Len(prefix)) = prefix

\* path.relative(from, to) of two normalized absolute paths
RECURSIVE relative(_, _)
relative(from, to) ==
    IF from # <<>> /\ to # <<>> /\ Head(from) = Head(to)
    THEN relative(Tail(from), Tail(to))
    ELSE [i \in 1..Len(from) |-> DotDot] \o to

\* one path segment against one pattern segment: '*' stands for any run of
\* characters; with dot: true a leading dot needs no explicit match, but
\* '.' and '..' are matched by no wildcard
RECURSIVE segmentMatch(_, _)
segmentMatch(pattern, segment) ==
    IF pattern = <<>> THEN segment = <<>>
    ELSE IF Head(pattern) = "*"
    THEN \E k \in 0..Len(segment) :
            segmentMatch(Tail(pattern), SubSeq(segment, k + 1, Len(segment)))
    ELSE /\ segment # <<>>
         /\ Head(segment) = Head(pattern)
         /\ segmentMatch(Tail(pattern), Tail(segment))

hasMagic(pattern) == \E i \in 1..Len(pattern) : pattern[i] = "*"

\* minimatch matchOne(file, pattern): '**' swallows any number of
\* segments except '.' and '..'
RECURSIVE matchOne(_, _)
matchOne(file, pattern) ==
    IF pattern = <<>> THEN file = <<>>
    ELSE IF Head(pattern) = GLOBSTAR
    THEN IF Len(pattern) = 1
         THEN /\ file # <<>>
              /\ \A i \in 1..Len(file) : file[i] \notin {Dot, DotDot}
         ELSE \E k \in 0..Len(file) :
                /\ \A i \in 1..k : file[i] \notin {Dot, DotDot}
                /\ k < Len(file)
                /\ matchOne(SubSeq(file, k + 1, Len(file)), Tail(pattern))
    ELSE /\ file # <<>>
         /\ IF hasMagic(Head(pattern))
            THEN /\ Head(file) \notin {Dot, DotDot}
                 /\ segmentMatch(Head(pattern), Head(file))
            ELSE Head(file) = Head(pattern)
         /\ matchOne(Tail(file), Tail(pattern))

\* minimatch(patternPath, pattern, { dot: true })
minimatch(patternPath, pattern) == matchOne(patternPath, pattern)

\* path.extname(filePath).toLowerCase(): from the last '.' of the last
\* segment, empty when that '.' is its first character
toLowerCase(c) == IF c = "PNG" THEN "png" ELSE c

extname(filePath) ==
    LET base == filePath[Len(filePath)]
        dots == {i \in 1..Len(base) : base[i] = "."}
    IN  IF dots = {} THEN <<>>
        ELSE LET last == CHOOSE i \in dots : \A j \in dots : j <= i
             IN  IF last = 1 THEN <<>>
                 ELSE [i \in 1..(Len(base) - last + 1) |->
                          toLowerCase(base[last + i - 1])]

binaryExtensions ==
    { <<".", e>> : e \in
        {"exe", "dll", "so", "dylib", "bin", "png", "jpg", "jpeg", "gif", "bmp",
         "ico", "svg", "pdf", "zip", "tar", "gz", "rar", "7z", "mp3", "mp4",
         "avi", "mov", "wmv", "woff", "woff2", "ttf", "eot", "db", "sqlite",
         "sqlite3"} }

isBinaryFile(filePath) == extname(filePath) \in binaryExtensions

\* isFileSizeValid(fileSize)
isFileSizeValid(fileSize, config) ==
    fileSize <= loadConfiguration(config).maxFileSize

\* Variant: a path that matches an include pattern is let through before
\* the exclude patterns are looked at.
FilterShouldSyncFile_includeFirst(filePath, workspaceFolder, config) ==
    LET loaded == loadConfiguration(config)
        normalizedPath == normalize(filePath)
        outside == /\ workspaceFolder # <<>>
                   /\ ~startsWith(fsPath(normalizedPath),
                                  fsPath(normalize(workspaceFolder)))
        patternPath == IF workspaceFolder # <<>>
                       THEN relative(workspaceFolder, normalizedPath)
                       ELSE << <<>> >> \o normalizedPath
        excluded == \E i \in 1..Len(loaded.excludePatterns) :
                        minimatch(patternPath, loaded.excludePatterns[i])
        included == \E i \in 1..Len(loaded.includePatterns) :
                        minimatch(patternPath, loaded.includePatterns[i])
    IN  IF outside THEN FALSE
        ELSE IF included THEN ~isBinaryFile(filePath)
        ELSE IF excluded THEN FALSE
        ELSE IF Len(loaded.includePatterns) > 0 THEN FALSE
        ELSE IF isBinaryFile(filePath) THEN FALSE
        ELSE TRUE

\* FileFilter.shouldSyncFile(filePath, workspaceFolder); workspaceFolder is
\* <<>> (undefined) or the folder's path
FilterShouldSyncFile(filePath, workspaceFolder, config) ==
    LET loaded == loadConfiguration(config)
        normalizedPath == normalize(filePath)
        outside == /\ workspaceFolder # <<>>
                   /\ ~startsWith(fsPath(normalizedPath),
                                  fsPath(normalize(workspaceFolder)))
        \* an absolute path splits on '/' into an empty first segment
        patternPath == IF workspaceFolder # <<>>
                       THEN relative(workspaceFolder, normalizedPath)
                       ELSE << <<>> >> \o normalizedPath
        excluded == \E i \in 1..Len(loaded.excludePatterns) :
                        minimatch(patternPath, loaded.excludePatterns[i])
        included == \E i \in 1..Len(loaded.includePatterns) :
                        minimatch(patternPath, loaded.includePatterns[i])
    IN  IF outside THEN FALSE
        ELSE IF excluded THEN FALSE
        ELSE IF Len(loaded.includePatterns) > 0 /\ ~included THEN FALSE
        ELSE IF isBinaryFile(filePath) THEN FALSE
        ELSE TRUE

\* vscode.workspace.getWorkspaceFolder(uri): the folder that contains the
\* file, or undefined (<<>>)
getWorkspaceFolder(filePath) ==
    LET n == normalize(filePath) IN
    IF Len(n) > Len(WorkspaceRoot) /\ SubSeq(n, 1, Len(WorkspaceRoot)) = WorkspaceRoot
    THEN WorkspaceRoot ELSE <<>>

(***************************************************************************)
(* FileSyncManager (src/src/extension/server/MessageBroker.ts:278-521).    *)
(* A document stands for its uri, file name, language and text; the        *)
(* documents the presenter can have open are fixed.                        *)
(***************************************************************************)
Documents == {"a.ts", ".env", "outside.ts", "big.ts", "Untitled-1", "img.PNG"}

Document(document) ==
    CASE document = "a.ts" ->
           [fsPath |-> << <<"ws">>, <<"src">>, <<"a", ".", "ts">> >>,
            length |-> 10, isUntitled |-> FALSE]
      [] document = ".env" ->
           [fsPath |-> << <<"ws">>, <<".", "env">> >>,
            length |-> 10, isUntitled |-> FALSE]
      [] document = "outside.ts" ->
           [fsPath |-> << <<"etc">>, <<"outside", ".", "ts">> >>,
            length |-> 10, isUntitled |-> FALSE]
      [] document = "big.ts" ->
           [fsPath |-> << <<"ws">>, <<"big", ".", "ts">> >>,
            length |-> DefaultMaxFileSize + 1, isUntitled |-> FALSE]
      [] document = "Untitled-1" ->
           [fsPath |-> << <<"Untitled-1">> >>,
            length |-> 10, isUntitled |-> TRUE]
      [] document = "img.PNG" ->
           [fsPath |-> << <<"ws">>, <<"img", ".", "PNG">> >>,
            length |-> 10, isUntitled |-> FALSE]

\* The file messages carry filePath, fileName, language and content, all
\* taken from the document, and the cursor position when there is an
\* active editor.
FileSwitchMessage(document, content, cursorPosition) ==
    [type |-> "file_switch", document |-> document, content |-> content,
     cursorPosition |-> cursorPosition]
FileUpdateMessage(document, content, cursorPosition) ==
    [type |-> "file_update", document |-> document, content |-> content,
     cursorPosition |-> cursorPosition]

\* debounceTimer: undefined ("none"), a timeout that is pending, or the
\* handle of a timeout that has fired (the callback does not reset the
\* field); document, content and events record the document whose edit set
\* the timer, its text after that edit, and the edits the timer has been
\* set or reset by.  timeouts counts the timeouts of the manager that the
\* runtime holds: set by setTimeout, neither fired nor cleared.
NoTimer == [state |-> "none", document |-> "", content |-> 0, events |-> 0]

\* FileSyncManager after construction; "" and 0 stand for undefined
NewFileSync ==
    [started |-> FALSE, activeEditor |-> "", currentDocument |-> "",
     debounceTimer |-> NoTimer, timeouts |-> 0]

\* the timeouts left after clearTimeout(this.debounceTimer): a handle whose
\* timeout has fired clears nothing
clearTimeout(f) ==
    IF f.debounceTimer.state = "pending" THEN f.timeouts - 1 ELSE f.timeouts

\* FileSyncManager.shouldSyncFile(document)
shouldSyncFile(document, config, closed) ==
    IF Document(document).isUntitled THEN FALSE
    ELSE IF document \in closed THEN FALSE
    ELSE IF ~FilterShouldSyncFile(Document(document).fsPath,
                                  getWorkspaceFolder(Document(document).fsPath),
                                  config)
    THEN FALSE
    ELSE IF ~isFileSizeValid(Document(document).length, config) THEN FALSE
    ELSE TRUE

\* syncFileSwitch(document): the messages it broadcasts
syncFileSwitch(f, document, config, closed, text) ==
    IF ~shouldSyncFile(document, config, closed) THEN <<>>
    ELSE <<FileSwitchMessage(document, text[document], f.activeEditor # "")>>

\* syncFileUpdate(document): the messages it broadcasts
syncFileUpdate(f, document, config, closed, text) ==
    IF ~shouldSyncFile(document, config, closed) THEN <<>>
    ELSE <<FileUpdateMessage(document, text[document], f.activeEditor # "")>>

\* Variant: a switch to another document is announced by the debounced
\* update instead of an immediate file_switch.
handleEditorChange_debounced(f, editor, config, closed, text) ==
    LET f1 == [f EXCEPT !.activeEditor = editor] IN
    IF editor = "" THEN [f |-> f1, out |-> <<>>]
    ELSE IF f1.currentDocument # editor
         THEN [f |-> [f1 EXCEPT !.currentDocument = editor,
                                !.debounceTimer = [state |-> "pending",
                                                   document |-> editor,
                                                   content |-> text[editor],
                                                   events |-> 1],
                                !.timeouts = clearTimeout(f) + 1],
               out |-> <<>>]
         ELSE [f |-> [f1 EXCEPT !.debounceTimer = NoTimer,
                                !.timeouts = clearTimeout(f)],
               out |-> <<>>]

\* Variant: the pending timer is left running across a switch.
handleEditorChange_noClear(f, editor, config, closed, text) ==
    LET f1 == [f EXCEPT !.activeEditor = editor] IN
    IF editor = "" THEN [f |-> f1, out |-> <<>>]
    ELSE IF f1.currentDocument # editor
         THEN LET f3 == [f1 EXCEPT !.currentDocument = editor]
              IN  [f |-> f3, out |-> syncFileSwitch(f3, editor, config, closed, text)]
         ELSE [f |-> f1, out |-> <<>>]

\* handleEditorChange(editor); editor is "" (undefined) or its document
handleEditorChange(f, editor, config, closed, text) ==
    LET f1 == [f EXCEPT !.activeEditor = editor] IN
    IF editor = "" THEN [f |-> f1, out |-> <<>>]
    ELSE LET f2 == [f1 EXCEPT !.debounceTimer =
                                  IF @.state # "none" THEN NoTimer ELSE @,
                              !.timeouts = clearTimeout(f)]
         IN  IF f2.currentDocument # editor
             THEN LET f3 == [f2 EXCEPT !.currentDocument = editor]
                  IN  [f |-> f3, out |-> syncFileSwitch(f3, editor, config, closed, text)]
             ELSE [f |-> f2, out |-> <<>>]

\* Variant: a timer that is pending is left to run, not restarted.
handleDocumentChange_noReset(f, document, contentChanges, text) ==
    IF f.currentDocument = "" \/ document # f.currentDocument THEN f
    ELSE IF contentChanges = 0 THEN f
    ELSE IF f.debounceTimer.state = "pending" THEN f
    ELSE [f EXCEPT !.debounceTimer =
                      [state |-> "pending", document |-> document,
                       content |-> text[document], events |-> 1],
                   !.timeouts = @ + 1]

\* Variant: the test for the current document is missing, a change of any
\* document starts the timer.
handleDocumentChange_anyDocument(f, document, contentChanges, text) ==
    IF contentChanges = 0 THEN f
    ELSE [f EXCEPT !.debounceTimer =
                      [state |-> "pending", document |-> document,
                       content |-> text[document],
                       events |-> IF @.state = "pending" THEN @.events + 1
                                  ELSE 1],
                   !.timeouts = clearTimeout(f) + 1]

\* Variant: the timeout that is pending is not cleared when the next edit
\* sets a new one.
handleDocumentChange_noClear(f, document, contentChanges, text) ==
    IF f.currentDocument = "" \/ document # f.currentDocument THEN f
    ELSE IF contentChanges = 0 THEN f
    ELSE [f EXCEPT !.debounceTimer =
                      [state |-> "pending", document |-> document,
                       content |-> text[document],
                       events |-> IF @.state = "pending" THEN @.events + 1
                                  ELSE 1],
                   !.timeouts = @ + 1]

\* handleDocumentChange(event); contentChanges is event.contentChanges.length
\* and text the documents' texts after the change
handleDocumentChange(f, document, contentChanges, text) ==
    IF f.currentDocument = "" \/ document # f.currentDocument THEN f
    ELSE IF contentChanges = 0 THEN f
    ELSE [f EXCEPT !.debounceTimer =
                      [state |-> "pending", document |-> document,
                       content |-> text[document],
                       events |-> IF @.state = "pending" THEN @.events + 1
                                  ELSE 1],
                   !.timeouts = clearTimeout(f) + 1]

\* Variant: the callback sends the update without asking the filter again.
debounceCallback_noFilter(f, config, closed, text) ==
    [f |-> [f EXCEPT !.debounceTimer.state = "fired", !.timeouts = @ - 1],
     out |-> IF f.currentDocument = "" THEN <<>>
             ELSE <<FileUpdateMessage(f.currentDocument, text[f.currentDocument],
                                      f.activeEditor # "")>>]

\* the setTimeout callback of handleDocumentChange; without a current
\* document syncFileUpdate(undefined) throws and the promise is rejected
debounceCallback(f, config, closed, text) ==
    [f |-> [f EXCEPT !.debounceTimer.state = "fired", !.timeouts = @ - 1],
     out |-> IF f.currentDocument = "" THEN <<>>
             ELSE syncFileUpdate(f, f.currentDocument, config, closed, text)]

\* Variant: the current document is sent again without asking the filter.
onDidChangeConfiguration_noFilter(f, config, closed, text) ==
    [f |-> f,
     out |-> IF f.currentDocument # ""
             THEN <<FileSwitchMessage(f.currentDocument, text[f.currentDocument],
                                      f.activeEditor # "")>>
             ELSE <<>>]

\* the onDidChangeConfiguration handler of start()
onDidChangeConfiguration(f, config, closed, text) ==
    [f |-> f,
     out |-> IF f.currentDocument # ""
             THEN syncFileSwitch(f, f.currentDocument, config, closed, text)
             ELSE <<>>]

\* new FileSyncManager(messageBroker) and start()
fileSyncStart(editor, config, closed, text) ==
    LET f == [NewFileSync EXCEPT !.started = TRUE] IN
    IF editor # "" THEN handleEditorChange(f, editor, config, closed, text)
    ELSE [f |-> f, out |-> <<>>]

\* Variant: the subscriptions are disposed but the timer is left running.
fileSyncStop_keepTimer(f) ==
    [f EXCEPT !.started = FALSE, !.activeEditor = "", !.currentDocument = ""]

\* FileSyncManager.stop()
fileSyncStop(f) ==
    [f EXCEPT !.debounceTimer = NoTimer, !.timeouts = clearTimeout(f),
              !.started = FALSE, !.activeEditor = "", !.currentDocument = ""]

\* MessageBroker.broadcast of each message of out, in order; throws = the
\* sockets whose send() throws
RECURSIVE broadcastEach(_, _, _)
broadcastEach(m, out, throws) ==
    IF out = <<>> THEN m
    ELSE LET b == broadcast(m, Head(out), throws)
         IN  broadcastEach(M(b.conns, b.socks), Tail(out), throws)

(***************************************************************************)
(* The wire format: MessageBroker builds a message object and sends        *)
(* JSON.stringify(message); the student page reads it back with            *)
(* JSON.parse.  A JS value is a record of its kind t and, by kind, its     *)
(* characters s, its number n or its members o (key and value, in          *)
(* insertion order).  A text is the sequence of its characters; LF is the  *)
(* line feed.                                                              *)
(***************************************************************************)
Undefined == [t |-> "undefined", s |-> <<>>, n |-> 0, o |-> <<>>]
Str(s) == [t |-> "string", s |-> s, n |-> 0, o |-> <<>>]
Num(n) == [t |-> "number", s |-> <<>>, n |-> n, o |-> <<>>]
Obj(o) == [t |-> "object", s |-> <<>>, n |-> 0, o |-> o]

DigitChars == <<"0", "1", "2", "3", "4", "5", "6", "7", "8", "9">>

\* Variant: only the quote is escaped, the backslash and the line feed are
\* copied.
RECURSIVE quote_quoteOnly(_)
quote_quoteOnly(s) ==
    IF s = <<>> THEN <<>>
    ELSE (IF Head(s) = "\"" THEN <<"\\", "\"">> ELSE <<Head(s)>>)
         \o quote_quoteOnly(Tail(s))

\* JSON.stringify of the characters of a string (QuoteJSONString)
RECURSIVE quote(_)
quote(s) ==
    IF s = <<>> THEN <<>>
    ELSE (CASE Head(s) = "\"" -> <<"\\", "\"">>
            [] Head(s) = "\\" -> <<"\\", "\\">>
            [] Head(s) = "LF" -> <<"\\", "n">>
            [] OTHER -> <<Head(s)>>)
         \o quote(Tail(s))

\* the decimal digits of a non-negative integer
RECURSIVE digits(_)
digits(n) ==
    IF n < 10 THEN <<DigitChars[n + 1]>>
    ELSE digits(n \div 10) \o <<DigitChars[(n % 10) + 1]>>

\* JSON.stringify(value); members whose value is undefined are left out
RECURSIVE stringify(_)
RECURSIVE stringifyMembers(_, _)
stringifyMembers(o, first) ==
    IF o = <<>> THEN <<>>
    ELSE IF Head(o)[2].t = "undefined" THEN stringifyMembers(Tail(o), first)
    ELSE (IF first THEN <<>> ELSE <<",">>)
         \o <<"\"">> \o quote(Head(o)[1]) \o <<"\"", ":">>
         \o stringify(Head(o)[2])
         \o stringifyMembers(Tail(o), FALSE)

stringify(value) ==
    CASE value.t = "string" -> <<"\"">> \o quote(value.s) \o <<"\"">>
      [] value.t = "number" -> digits(value.n)
      [] value.t = "object" -> <<"{">> \o stringifyMembers(value.o, TRUE) \o <<"}">>

\* JSON.parse, by recursive descent; each step returns the value read and
\* the rest of the text
RECURSIVE parseString(_, _)
parseString(text, acc) ==
    IF Head(text) = "\"" THEN [v |-> acc, rest |-> Tail(text)]
    ELSE IF Head(text) = "\\"
    THEN parseString(Tail(Tail(text)),
                     Append(acc, IF text[2] = "n" THEN "LF" ELSE text[2]))
    ELSE parseString(Tail(text), Append(acc, Head(text)))

RECURSIVE parseNumber(_, _)
parseNumber(text, acc) ==
    IF text # <<>> /\ \E d \in 1..10 : DigitChars[d] = Head(text)
    THEN parseNumber(Tail(text),
                     acc * 10 + (CHOOSE d \in 1..10 : DigitChars[d] = Head(text)) - 1)
    ELSE [v |-> Num(acc), rest |-> text]

RECURSIVE parseValue(_)
RECURSIVE parseMembers(_, _)
parseMembers(text, acc) ==
    IF Head(text) = "}" THEN [v |-> Obj(acc), rest |-> Tail(text)]
    ELSE LET member == IF Head(text) = "," THEN Tail(text) ELSE text
             key == parseString(Tail(member), <<>>)
             value == parseValue(Tail(key.rest))
         IN  parseMembers(value.rest, Append(acc, <<key.v, value.v>>))

parseValue(text) ==
    IF Head(text) = "\"" 
    THEN LET r == parseString(Tail(text), <<>>)
         IN  [v |-> Str(r.v), rest |-> r.rest]
    ELSE IF Head(text) = "{" THEN parseMembers(Tail(text), <<>>)
    ELSE parseNumber(text, 0)

parse(text) == parseValue(text).v

\* message[key]: the value of the last member with that key, or undefined
member(message, key) ==
    LET is == {i \in 1..Len(message.o) : message.o[i][1] = key}
    IN  IF is = {} THEN Undefined
        ELSE message.o[CHOOSE i \in is : \A j \in is : j <= i][2]

\* The message objects MessageBroker builds (MessageBroker.ts:31-118)
connectedMessage(timestamp, sessionId, teacherName) ==
    Obj(<< <<<<"type">>, Str(<<"connected">>)>>,
           <<<<"timestamp">>, Num(timestamp)>>,
           <<<<"sessionId">>, sessionId>>,
           <<<<"teacherName">>, teacherName>> >>)

fileMessage(type, timestamp, filePath, fileName, language, content, position) ==
    Obj(<< <<<<"type">>, Str(<<type>>)>>,
           <<<<"timestamp">>, Num(timestamp)>>,
           <<<<"filePath">>, filePath>>,
           <<<<"fileName">>, fileName>>,
           <<<<"language">>, language>>,
           <<<<"content">>, content>>,
           <<<<"cursorPosition">>, position>> >>)

statsMessage(timestamp, connectedStudents) ==
    Obj(<< <<<<"type">>, Str(<<"stats">>)>>,
           <<<<"timestamp">>, Num(timestamp)>>,
           <<<<"connectedStudents">>, Num(connectedStudents)>> >>)

serverClosingMessage(timestamp, reason) ==
    Obj(<< <<<<"type">>, Str(<<"server_closing">>)>>,
           <<<<"timestamp">>, Num(timestamp)>>,
           <<<<"message">>, reason>> >>)

pongMessage(timestamp) ==
    Obj(<< <<<<"type">>, Str(<<"pong">>)>>,
           <<<<"timestamp">>, Num(timestamp)>> >>)

cursor(line, character) ==
    Obj(<< <<<<"line">>, Num(line)>>, <<<<"character">>, Num(character)>> >>)

(***************************************************************************)
(* Initial state: the extension is activated, no session was started.      *)
(***************************************************************************)
InitSession ==
    /\ connections = EmptyMap
    /\ pingTimer = FALSE
    /\ timeoutTimer = FALSE
    /\ pingAt = 0
    /\ timeoutAt = 0
    /\ sockets = EmptyMap
    /\ nextId = 1
    /\ now = 0
    /\ sessionConfig = 0
    /\ httpServer = "undefined"
    /\ wsServer = "undefined"
    /\ stopPc = [k \in 1..2 |-> "idle"]
    /\ serverInstance = FALSE
    /\ started = 0
    /\ lastOp = NoOp
    /\ settings = DefaultSettings
    /\ activeTextEditor = ""
    /\ closedDocuments = {}
    /\ documentText = [document \in Documents |-> 0]
    /\ fileSync = NewFileSync
    /\ outbox = <<>>

Init ==
    /\ InitSession
    /\ codec = [pc |-> "idle"]
    /\ filterCall = [pc |-> "idle"]

Timers == [pingTimer |-> pingTimer, timeoutTimer |-> timeoutTimer]
Idle == lastOp = NoOp

\* control returns to the event loop
Return ==
    /\ lastOp # NoOp
    /\ lastOp' = NoOp
    /\ outbox' = <<>>
    /\ UNCHANGED <<editorVars, fileSync, callVars>>
    /\ UNCHANGED <<managerVars, sockets, nextId, now, sessionVars>>
OpenIds(conns, socks) == {s \in DOMAIN conns : socks[s].readyState = "OPEN"}

(***************************************************************************)
(* Extension commands and the listener.                                    *)
(***************************************************************************)
\* Variant: a later start reuses the WebSocketServer object of the session
\* before, whose ConnectionManager constructor does not run again.
StartSession_sameObject(maxStarted) ==
    /\ Idle
    /\ ~serverInstance
    /\ started < maxStarted
    /\ \A k \in 1..2 : stopPc[k] \in {"idle", "done"}
    /\ connections' = EmptyMap
    /\ pingTimer' = IF started = 0 THEN TRUE ELSE pingTimer
    /\ timeoutTimer' = IF started = 0 THEN TRUE ELSE timeoutTimer
    /\ pingAt' = IF started = 0 THEN now + pingInterval ELSE pingAt
    /\ timeoutAt' = IF started = 0 THEN now + timeoutInterval ELSE timeoutAt
    /\ started' = started + 1
    /\ sessionConfig' = started + 1
    /\ httpServer' = "created"
    /\ wsServer' = "running"
    /\ stopPc' = [k \in 1..2 |-> "idle"]
    /\ serverInstance' = TRUE
    /\ LET r == fileSyncStart(activeTextEditor, settings, closedDocuments,
                               documentText)
       IN  /\ fileSync' = r.f
           /\ outbox' = r.out
           /\ lastOp' = IF r.out = <<>> THEN NoOp
                        ELSE [Op("start", 0, "none", "none") EXCEPT
                                 !.document = activeTextEditor]
    /\ UNCHANGED <<editorVars, callVars>>
    /\ UNCHANGED <<sockets, nextId, now>>

\* startTeacherServer: new WebSocketServer (and with it a new
\* ConnectionManager, whose constructor starts the heartbeat), a new
\* FileSyncManager that is started, then start() up to listen().
StartSession(maxStarted) ==
    /\ Idle
    /\ ~serverInstance
    /\ started < maxStarted
    /\ \A k \in 1..2 : stopPc[k] \in {"idle", "done"}
    /\ connections' = EmptyMap
    /\ pingTimer' = TRUE
    /\ timeoutTimer' = TRUE
    /\ pingAt' = now + pingInterval
    /\ timeoutAt' = now + timeoutInterval
    /\ started' = started + 1
    /\ sessionConfig' = started + 1
    /\ httpServer' = "created"
    /\ wsServer' = "running"
    /\ stopPc' = [k \in 1..2 |-> "idle"]
    /\ serverInstance' = TRUE
    /\ LET r == fileSyncStart(activeTextEditor, settings, closedDocuments,
                               documentText)
       IN  /\ fileSync' = r.f
           /\ outbox' = r.out
           /\ lastOp' = IF r.out = <<>> THEN NoOp
                        ELSE [Op("start", 0, "none", "none") EXCEPT
                                 !.document = activeTextEditor]
    /\ UNCHANGED <<editorVars, callVars>>
    /\ UNCHANGED <<sockets, nextId, now>>

StartTeacherServer == StartSession(MaxSessions)

\* startTeacherServer once more, after a session has ended or failed to
\* start: serverInstance is null again and a new WebSocketServer is made
RestartTeacherServer ==
    /\ started >= MaxSessions
    /\ StartSession(MaxRestarts)

\* the listen() callback: start() resolves
ListenOk ==
    /\ Idle
    /\ httpServer = "created"
    /\ httpServer' = "listening"
    /\ lastOp' = NoOp
    /\ UNCHANGED <<editorVars, fileSync, outbox, callVars>>
    /\ UNCHANGED <<managerVars, sockets, nextId, now, sessionConfig, wsServer,
                   stopPc, serverInstance, started>>

\* the httpServer 'error' handler: start() rejects, and the catch block of
\* startTeacherServer drops the instance
ListenError ==
    /\ Idle
    /\ httpServer = "created"
    /\ httpServer' = "failed"
    /\ serverInstance' = FALSE
    /\ lastOp' = NoOp
    /\ UNCHANGED <<editorVars, fileSync, outbox, callVars>>
    /\ UNCHANGED <<managerVars, sockets, nextId, now, sessionConfig, wsServer,
                   stopPc, started>>

\* wsServer 'connection': a new socket arrives open
HandleWebSocketConnection ==
    /\ Idle
    /\ httpServer = "listening"
    /\ wsServer = "running"
    /\ nextId <= MaxSockets
    /\ \E throws \in BOOLEAN :
         LET ws == nextId
             r == handleWebSocketConnection(
                      M(connections, MapSet(sockets, ws, NewSocket)), ws,
                      sessionConfig, now, throws)
         IN  /\ connections' = r.conns
             /\ sockets' = r.socks
             /\ lastOp' = Op("connection", ws, r.ret, r.send)
    /\ nextId' = nextId + 1
    /\ UNCHANGED <<editorVars, fileSync, outbox, callVars>>
    /\ UNCHANGED <<pingTimer, timeoutTimer, pingAt, timeoutAt, now, sessionVars>>

(***************************************************************************)
(* Socket events.                                                          *)
(***************************************************************************)
Live(s) == s \in DOMAIN sockets /\ sockets[s].readyState \in {"OPEN", "CLOSING"}

\* 'message' on a socket the server accepted
OnMessage ==
    /\ Idle
    /\ \E s \in DOMAIN sockets, rawMessage \in RawMessages,
       requireAuth \in BOOLEAN, throws \in BOOLEAN :
        /\ Live(s) /\ sockets[s].handlers
        \* what send() does matters only when a pong is sent, requireAuth
        \* only when reading .type can fail
        /\ throws => JSONParse(rawMessage).type = "ping"
        /\ requireAuth => JSONParse(rawMessage).null
        /\ LET r == onMessage(M(connections, sockets), s, rawMessage,
                              requireAuth, now, throws)
           IN  /\ connections' = r.conns
               /\ sockets' = r.socks
               /\ lastOp' = Op("message", IF r.ret = "ping" THEN s ELSE 0, r.ret, r.send)
        /\ UNCHANGED <<editorVars, fileSync, outbox, callVars>>
        /\ UNCHANGED <<pingTimer, timeoutTimer, pingAt, timeoutAt, nextId, now,
                       sessionVars>>

\* 'pong' on a socket the server accepted
OnPong ==
    /\ Idle
    /\ \E s \in DOMAIN sockets :
        /\ Live(s) /\ sockets[s].handlers
        /\ LET r == onPong(M(connections, sockets), s, now)
           IN  /\ connections' = r.conns
               /\ sockets' = r.socks
        /\ lastOp' = NoOp
        /\ UNCHANGED <<editorVars, fileSync, outbox, callVars>>
        /\ UNCHANGED <<pingTimer, timeoutTimer, pingAt, timeoutAt, nextId, now,
                       sessionVars>>

\* the peer starts closing, or the transport fails: the socket leaves OPEN
\* before any event is emitted
PeerClosing ==
    /\ Idle
    /\ \E s \in DOMAIN sockets :
        /\ sockets[s].readyState = "OPEN"
        /\ sockets' = [sockets EXCEPT ![s].readyState = "CLOSING"]
        /\ lastOp' = NoOp
        /\ UNCHANGED <<editorVars, fileSync, outbox, callVars>>
        /\ UNCHANGED <<managerVars, nextId, now, sessionVars>>

\* 'close': the socket is CLOSED when the handler of addConnection runs;
\* nothing happens on the socket afterwards
OnClose ==
    /\ Idle
    /\ \E s \in DOMAIN sockets :
        /\ Live(s)
        /\ LET closed == [sockets EXCEPT ![s].readyState = "CLOSED"]
               r == IF sockets[s].handlers
                    THEN removeConnection(M(connections, closed), s)
                    ELSE [conns |-> connections, socks |-> closed, ret |-> FALSE]
           IN  /\ connections' = r.conns
               /\ sockets' = MapDelete(r.socks, s)
               /\ lastOp' = Op("close", s, Bool(r.ret), "none")
        /\ UNCHANGED <<editorVars, fileSync, outbox, callVars>>
        /\ UNCHANGED <<pingTimer, timeoutTimer, pingAt, timeoutAt, nextId, now,
                       sessionVars>>

\* 'error': the handler of addConnection runs; the socket may still be
\* OPEN, or have left OPEN before (PeerClosing)
OnError ==
    /\ Idle
    /\ \E s \in DOMAIN sockets :
        /\ Live(s) /\ sockets[s].handlers
        /\ LET r == removeConnection(M(connections, sockets), s)
           IN  /\ connections' = r.conns
               /\ sockets' = r.socks
               /\ lastOp' = Op("error", s, Bool(r.ret), "none")
        /\ UNCHANGED <<editorVars, fileSync, outbox, callVars>>
        /\ UNCHANGED <<pingTimer, timeoutTimer, pingAt, timeoutAt, nextId, now,
                       sessionVars>>

(***************************************************************************)
(* Time and the two intervals of startHeartbeat.                           *)
(***************************************************************************)
\* time passes, one probe period at a time, once the callbacks due have
\* run: the interval callbacks, the 500 ms timer of stop() and the callback
\* of wsServer.close()
Tick ==
    /\ Idle
    /\ now < MaxTicks * pingInterval
    /\ \A k \in 1..2 : stopPc[k] \notin {"grace", "wsClosing"}
    /\ pingTimer => now < pingAt
    /\ timeoutTimer => now < timeoutAt
    /\ now' = now + pingInterval
    /\ lastOp' = NoOp
    /\ UNCHANGED <<editorVars, fileSync, outbox, callVars>>
    /\ UNCHANGED <<managerVars, sockets, nextId, sessionVars>>

ProbeSweep ==
    /\ Idle
    /\ pingTimer /\ now >= pingAt
    /\ LET r == probeSweep(M(connections, sockets))
       IN  /\ connections' = r.conns
           /\ sockets' = r.socks
           /\ lastOp' = [Op("probe sweep", 0,
                             IF DOMAIN r.conns = DOMAIN connections
                             THEN "none" ELSE "removed", "none") EXCEPT
                             !.ids = r.pinged]
    /\ pingAt' = pingAt + pingInterval
    /\ UNCHANGED <<editorVars, fileSync, outbox, callVars>>
    /\ UNCHANGED <<pingTimer, timeoutTimer, timeoutAt, nextId, now, sessionVars>>

TimeoutSweep ==
    /\ Idle
    /\ timeoutTimer /\ now >= timeoutAt
    /\ LET r == timeoutSweep(M(connections, sockets), now)
       IN  /\ connections' = r.conns
           /\ sockets' = r.socks
    /\ timeoutAt' = timeoutAt + timeoutInterval
    /\ lastOp' = NoOp
    /\ UNCHANGED <<editorVars, fileSync, outbox, callVars>>
    /\ UNCHANGED <<pingTimer, timeoutTimer, pingAt, nextId, now, sessionVars>>

(***************************************************************************)
(* The editor: events of the VS Code window and workspace that reach the   *)
(* FileSyncManager while it is started.                                    *)
(***************************************************************************)
\* the values the classroomSync.sync settings take
SyncSettings ==
    { DefaultSettings,
      [DefaultSettings EXCEPT !.excludePatterns = Setting(<<>>)],
      [DefaultSettings EXCEPT
          !.includePatterns = Setting(<< <<<<"src">>, GLOBSTAR>> >>)] }

\* the sockets whose send() may throw while out is broadcast
SendThrows(out) ==
    IF out = <<>> THEN {{}} ELSE SUBSET OpenIds(connections, sockets)

\* the messages of out are broadcast; throws = the sockets whose send() throws
Broadcast(out, throws) ==
    LET b == broadcastEach(M(connections, sockets), out, throws)
    IN  /\ connections' = b.conns
        /\ sockets' = b.socks
        /\ outbox' = out

\* onDidChangeActiveTextEditor: the active editor becomes undefined, or an
\* editor of an open document (possibly another editor of the same one)
ActiveEditorChanged ==
    /\ Idle
    /\ \E editor \in ({""} \cup Documents) \ closedDocuments :
         /\ activeTextEditor' = editor
         /\ IF fileSync.started
            THEN LET r == handleEditorChange(fileSync, editor, settings,
                                             closedDocuments, documentText)
                 IN  \E throws \in SendThrows(r.out) :
                       /\ fileSync' = r.f
                       /\ Broadcast(r.out, throws)
                       /\ lastOp' =
                            [Op("editor change", 0,
                                IF /\ editor # ""
                                   /\ fileSync.debounceTimer.state = "pending"
                                THEN "clearTimeout" ELSE "none",
                                "none")
                               EXCEPT !.document = editor, !.ids = throws]
            ELSE /\ lastOp' = NoOp
                 /\ UNCHANGED <<fileSync, connections, sockets, outbox>>
    /\ UNCHANGED <<settings, closedDocuments, documentText, callVars>>
    /\ UNCHANGED <<pingTimer, timeoutTimer, pingAt, timeoutAt, nextId, now,
                   sessionVars>>

\* the text a content change leaves in a document: one no document had
NewText == 1 + CHOOSE n \in 0..MaxEdits :
                 /\ \E d \in Documents : documentText[d] = n
                 /\ \A d \in Documents : documentText[d] <= n

\* the documents the presenter types in
EditedDocuments == {"a.ts", ".env"}

\* onDidChangeTextDocument for an open document: its content has changed
\* (contentChanges > 0) or only its metadata
DocumentChanged ==
    /\ Idle
    /\ fileSync.started
    /\ \E document \in Documents \ closedDocuments, contentChanges \in 0..1 :
         /\ contentChanges > 0 =>
               document \in EditedDocuments /\ NewText <= MaxEdits
         /\ documentText' = IF contentChanges > 0
                            THEN [documentText EXCEPT ![document] = NewText]
                            ELSE documentText
         /\ fileSync' = handleDocumentChange(fileSync, document, contentChanges,
                                             documentText')
         /\ lastOp' = IF document = fileSync.currentDocument /\ contentChanges > 0
                      THEN [Op("document change", 0, "setTimeout", "none")
                              EXCEPT !.document = document]
                      ELSE NoOp
    /\ UNCHANGED <<settings, activeTextEditor, closedDocuments, outbox, callVars>>
    /\ UNCHANGED <<managerVars, sockets, nextId, now, sessionVars>>

\* the debounce timeout elapses
DebounceFired ==
    /\ Idle
    /\ fileSync.debounceTimer.state = "pending"
    /\ LET r == debounceCallback(fileSync, settings, closedDocuments,
                                 documentText)
       IN  \E throws \in SendThrows(r.out) :
             /\ fileSync' = r.f
             /\ Broadcast(r.out, throws)
             /\ lastOp' = [Op("debounce", 0, "none", "none")
                             EXCEPT !.document = fileSync.currentDocument,
                                    !.ids = throws]
    /\ UNCHANGED <<editorVars, callVars>>
    /\ UNCHANGED <<pingTimer, timeoutTimer, pingAt, timeoutAt, nextId, now,
                   sessionVars>>

\* the user edits the classroomSync.sync settings: onDidChangeConfiguration
ConfigurationChanged ==
    /\ Idle
    /\ \E config \in SyncSettings \ {settings} :
         /\ settings' = config
         /\ IF fileSync.started
            THEN LET r == onDidChangeConfiguration(fileSync, config,
                                                   closedDocuments, documentText)
                 IN  \E throws \in SendThrows(r.out) :
                       /\ fileSync' = r.f
                       /\ Broadcast(r.out, throws)
                       /\ lastOp' = [Op("configuration change", 0, "none", "none")
                                       EXCEPT !.document = fileSync.currentDocument,
                                              !.ids = throws]
            ELSE /\ lastOp' = NoOp
                 /\ UNCHANGED <<fileSync, connections, sockets, outbox>>
    /\ UNCHANGED <<activeTextEditor, closedDocuments, documentText, callVars>>
    /\ UNCHANGED <<pingTimer, timeoutTimer, pingAt, timeoutAt, nextId, now,
                   sessionVars>>

\* the current document is closed after the editor has left it
CloseDocument ==
    /\ Idle
    /\ fileSync.currentDocument # ""
    /\ fileSync.currentDocument # activeTextEditor
    /\ fileSync.currentDocument \notin closedDocuments
    /\ Cardinality(closedDocuments) < MaxClosed
    /\ closedDocuments' = closedDocuments \cup {fileSync.currentDocument}
    /\ UNCHANGED <<settings, activeTextEditor, documentText, fileSync, outbox,
                   callVars, lastOp>>
    /\ UNCHANGED <<managerVars, sockets, nextId, now, sessionVars>>

(***************************************************************************)
(* Shutdown.  stopPc[1] is the stop() called by stopTeacherServer or       *)
(* deactivate, stopPc[2] the stop() called by the dispose() that follows.  *)
(***************************************************************************)
ApplyStop(r, k, pcs) ==
    /\ connections' = r.conns
    /\ sockets' = r.socks
    /\ pingTimer' = r.pingTimer
    /\ timeoutTimer' = r.timeoutTimer
    /\ pingAt' = IF r.pingTimer THEN pingAt ELSE 0
    /\ timeoutAt' = IF r.timeoutTimer THEN timeoutAt ELSE 0
    /\ wsServer' = r.wsServer
    /\ stopPc' = [pcs EXCEPT ![k] = r.pc]

\* stopTeacherServer, up to `await serverInstance.stop()`
StopTeacherServer ==
    /\ Idle
    /\ serverInstance
    /\ stopPc[1] = "idle"
    /\ \E throws \in SUBSET OpenIds(connections, sockets) :
         LET r == stop(M(connections, sockets), Timers, wsServer, throws)
         IN  /\ ApplyStop(r, 1, stopPc)
             /\ lastOp' = [Op("stop", 0, r.ret, "none") EXCEPT
                            !.ids = throws,
                            !.document = fileSync.debounceTimer.document]
    /\ fileSync' = fileSyncStop(fileSync)
    /\ outbox' = outbox
    /\ UNCHANGED <<editorVars, callVars>>
    /\ UNCHANGED <<nextId, now, sessionConfig, httpServer, serverInstance, started>>

\* stopTeacherServer, after the await: dispose() calls stop() again, and
\* the instance is dropped
AfterStop ==
    /\ Idle
    /\ serverInstance
    /\ stopPc[1] = "done" /\ stopPc[2] = "idle"
    /\ \E throws \in SUBSET OpenIds(connections, sockets) :
         LET r == stop(M(connections, sockets), Timers, wsServer, throws)
         IN  /\ ApplyStop(r, 2, stopPc)
             /\ lastOp' = [Op("stop", 0, r.ret, "none") EXCEPT !.ids = throws]
    /\ serverInstance' = FALSE
    /\ UNCHANGED <<editorVars, fileSync, outbox, callVars>>
    /\ UNCHANGED <<nextId, now, sessionConfig, httpServer, started>>

\* deactivate: stop() and dispose() are called back to back, neither awaited
Deactivate ==
    /\ Idle
    /\ serverInstance
    /\ stopPc[1] = "idle"
    /\ \E throws1 \in SUBSET OpenIds(connections, sockets) :
         LET r1 == stop(M(connections, sockets), Timers, wsServer, throws1)
         IN  \E throws2 \in SUBSET OpenIds(r1.conns, r1.socks) :
               LET r2 == stop(M(r1.conns, r1.socks),
                              [pingTimer |-> r1.pingTimer,
                               timeoutTimer |-> r1.timeoutTimer],
                              r1.wsServer, throws2)
               IN  /\ ApplyStop(r2, 2, [stopPc EXCEPT ![1] = r1.pc])
                   /\ lastOp' = [Op("deactivate", 0, r2.ret, "none") EXCEPT
                                      !.ids = throws1 \cup throws2]
    /\ serverInstance' = FALSE
    /\ fileSync' = fileSyncStop(fileSync)
    /\ outbox' = outbox
    /\ UNCHANGED <<editorVars, callVars>>
    /\ UNCHANGED <<nextId, now, sessionConfig, httpServer, started>>

\* the 500 ms timer of stop() fires; timers set in the same tick fire in
\* the order they were set
GraceElapsed ==
    /\ Idle
    /\ \E k \in 1..2 :
        /\ stopPc[k] = "grace"
        /\ k = 2 => stopPc[1] # "grace"
        /\ LET r == stopClose(M(connections, sockets), Timers, wsServer)
           IN  /\ ApplyStop(r, k, stopPc)
               /\ lastOp' = Op("grace elapsed", k, r.ret, "none")
        /\ UNCHANGED <<editorVars, fileSync, outbox, callVars>>
        /\ UNCHANGED <<nextId, now, sessionConfig, httpServer, serverInstance,
                       started>>

\* the callback of wsServer.close()
WsServerClosed ==
    /\ Idle
    /\ \E k \in 1..2 :
        /\ stopPc[k] = "wsClosing"
        /\ k = 2 => stopPc[1] # "wsClosing"
        /\ wsServer' = "undefined"
        /\ IF httpServer # "undefined"
           THEN /\ httpServer' = "closing"
                /\ stopPc' = [stopPc EXCEPT ![k] = "httpClosing"]
           ELSE /\ httpServer' = httpServer
                /\ stopPc' = [stopPc EXCEPT ![k] = "done"]
        /\ lastOp' = NoOp
        /\ UNCHANGED <<editorVars, fileSync, outbox, callVars>>
        /\ UNCHANGED <<managerVars, sockets, nextId, now, sessionConfig,
                       serverInstance, started>>

\* the callback of httpServer.close()
HttpServerClosed ==
    /\ Idle
    /\ \E k \in 1..2 :
        /\ stopPc[k] = "httpClosing"
        /\ k = 2 => stopPc[1] # "httpClosing"
        /\ httpServer' = "undefined"
        /\ stopPc' = [stopPc EXCEPT ![k] = "done"]
        /\ lastOp' = NoOp
        /\ UNCHANGED <<editorVars, fileSync, outbox, callVars>>
        /\ UNCHANGED <<managerVars, sockets, nextId, now, sessionConfig,
                       wsServer, serverInstance, started>>

Next ==
    \/ StartTeacherServer
    \/ ListenOk
    \/ ListenError
    \/ HandleWebSocketConnection
    \/ OnMessage
    \/ OnPong
    \/ PeerClosing
    \/ OnClose
    \/ OnError
    \/ Tick
    \/ ProbeSweep
    \/ TimeoutSweep
    \/ StopTeacherServer
    \/ AfterStop
    \/ Deactivate
    \/ GraceElapsed
    \/ WsServerClosed
    \/ HttpServerClosed
    \/ Return

\* The whole system.
Spec == Init /\ [][Next]_vars

\* Runs shorter than one probe period: the clock stands still and no
\* interval fires.
NextLifecycle ==
    \/ StartTeacherServer
    \/ ListenOk
    \/ ListenError
    \/ HandleWebSocketConnection
    \/ OnMessage
    \/ OnPong
    \/ PeerClosing
    \/ OnClose
    \/ OnError
    \/ StopTeacherServer
    \/ AfterStop
    \/ Deactivate
    \/ GraceElapsed
    \/ WsServerClosed
    \/ HttpServerClosed
    \/ Return

SpecLifecycle == Init /\ [][NextLifecycle]_vars

\* A session that is not stopped: connections, messages and the heartbeat.
NextHeartbeat ==
    \/ StartTeacherServer
    \/ ListenOk
    \/ ListenError
    \/ HandleWebSocketConnection
    \/ OnMessage
    \/ OnPong
    \/ PeerClosing
    \/ OnClose
    \/ OnError
    \/ Tick
    \/ ProbeSweep
    \/ TimeoutSweep
    \/ Return

SpecHeartbeat == Init /\ [][NextHeartbeat]_vars

\* A presenting session seen from the editor: the server is started,
\* students connect, and the presenter switches, edits and closes documents
\* and changes the settings, until the session is stopped.
ViewerConnects ==
    /\ nextId <= MaxViewers
    /\ HandleWebSocketConnection

NextSync ==
    \/ StartTeacherServer
    \/ ListenOk
    \/ ViewerConnects
    \/ ActiveEditorChanged
    \/ DocumentChanged
    \/ DebounceFired
    \/ ConfigurationChanged
    \/ CloseDocument
    \/ StopTeacherServer
    \/ Return

SpecSync == Init /\ [][NextSync]_vars

(***************************************************************************)
(* FileFilter.shouldSyncFile as a function of its inputs: a call is drawn  *)
(* from the paths, pattern lists and settings below, with the workspace    *)
(* folder or without one (the parameter is optional), and then returns.    *)
(***************************************************************************)
FilterPaths ==
    { << <<"ws">>, <<"src">>, <<"a", ".", "ts">> >>,
      << <<"ws">>, <<".", "env">> >>,
      << <<"ws">>, <<".", "env", ".", "local">> >>,
      << <<"ws">>, <<"src">>, <<"server", ".", "key">> >>,
      << <<"ws">>, <<"node_modules">>, <<"m", ".", "js">> >>,
      << <<"ws">>, <<"img", ".", "PNG">> >>,
      << <<"ws">>, <<"README">> >>,
      << <<"etc">>, <<"outside", ".", "ts">> >>,
      << <<"ws", "-evil">>, <<"a", ".", "ts">> >>,
      << <<"ws">>, DotDot, <<"etc">>, <<".", "env">> >> }

IncludeLists ==
    { Unset,
      Setting(<< <<<<"src">>, GLOBSTAR>> >>),
      Setting(<< <<GLOBSTAR, <<"*", ".", "key">> >>,
                 <<GLOBSTAR, <<"*", ".", "ts">> >> >>) }

ExcludeLists ==
    { Unset,
      Setting(<<>>),
      Setting(<< <<GLOBSTAR, <<"*", ".", "ts">> >> >>) }

FilterConfigs ==
    { [includePatterns |-> i, excludePatterns |-> e, maxFileSize |-> Unset] :
        i \in IncludeLists, e \in ExcludeLists }

InitFilter ==
    /\ InitSession
    /\ codec = [pc |-> "idle"]
    /\ filterCall \in
         { [pc |-> "called", filePath |-> f, workspaceFolder |-> w,
            config |-> c, result |-> FALSE] :
             f \in FilterPaths, c \in FilterConfigs,
             w \in {WorkspaceRoot, <<>>} }

\* fileFilter.shouldSyncFile(filePath, workspaceFolder) returns
ShouldSyncFileReturns ==
    /\ filterCall.pc = "called"
    /\ filterCall' =
         [filterCall EXCEPT
            !.pc = "returned",
            !.result = FilterShouldSyncFile(filterCall.filePath,
                                            filterCall.workspaceFolder,
                                            filterCall.config)]
    /\ UNCHANGED <<managerVars, sockets, nextId, now, sessionVars, lastOp,
                   editorVars, fileSync, outbox, codec>>

NextFilter == ShouldSyncFileReturns

SpecFilter == InitFilter /\ [][NextFilter]_vars

(***************************************************************************)
(* The wire format as a function of the message: a message is drawn from   *)
(* the texts, numbers and cursor positions below, is sent as               *)
(* JSON.stringify(message) and read back with JSON.parse.                  *)
(***************************************************************************)
Texts ==
    { Str(<<>>), Str(<<"a">>), Str(<<"a", "\"", "}">>),
      Str(<<"\\", "n", "LF">>), Str(<<"7", ",", ":">>) }
Timestamps == {0, 42}
Cursors == {Undefined, cursor(0, 0), cursor(12, 3)}

Messages ==
    UNION {
      { connectedMessage(ts, s, n) :
          ts \in Timestamps, s \in {Str(<<"a">>), Str(<<"7", ",", ":">>)},
          n \in {Undefined} \cup Texts },
      { fileMessage(type, ts, Str(<<"/", "a">>), Str(<<"a">>), Str(<<"ts">>),
                    content, c) :
          type \in {"file_update", "file_switch"}, ts \in Timestamps,
          content \in Texts, c \in Cursors },
      { statsMessage(ts, k) : ts \in Timestamps, k \in {0, 2, 50} },
      { serverClosingMessage(ts, reason) : ts \in Timestamps, reason \in Texts },
      { pongMessage(ts) : ts \in Timestamps } }

InitCodec ==
    /\ InitSession
    /\ filterCall = [pc |-> "idle"]
    /\ codec \in { [pc |-> "message", message |-> m, json |-> <<>>,
                    received |-> Undefined] : m \in Messages }

\* const json = JSON.stringify(message), handed to the connection manager
Stringify ==
    /\ codec.pc = "message"
    /\ codec' = [codec EXCEPT !.pc = "sent", !.json = stringify(codec.message)]
    /\ UNCHANGED <<managerVars, sockets, nextId, now, sessionVars, lastOp,
                   editorVars, fileSync, outbox, filterCall>>

\* the student page: const message = JSON.parse(event.data)
Parse ==
    /\ codec.pc = "sent"
    /\ codec' = [codec EXCEPT !.pc = "received", !.received = parse(codec.json)]
    /\ UNCHANGED <<managerVars, sockets, nextId, now, sessionVars, lastOp,
                   editorVars, fileSync, outbox, filterCall>>

NextCodec ==
    \/ Stringify
    \/ Parse

SpecCodec == InitCodec /\ [][NextCodec]_vars

(***************************************************************************)
(* Properties.                                                             *)
(***************************************************************************)

\* C1: after any sequence of connection attempts, removals, liveness
\* sweeps and disconnectAll, the connection table holds at most
\* maxConnections entries (50 in the source).
C1_TableWithinCapacity ==
    Cardinality(DOMAIN connections) <= maxConnections

\* the table is full again after an entry was removed and time has passed
C1_Witness ==
    /\ Cardinality(DOMAIN connections) = maxConnections
    /\ now > 0
    /\ \E s \in DOMAIN sockets \ DOMAIN connections : sockets[s].removed = 1

\* C2: a connection that arrives while the table is full is rejected before
\* any entry is created: the socket is closed with code 1008, no handler is
\* registered on it, nothing is sent to it and the table and the other
\* sockets stay as they were; addConnection, called on a full table, returns
\* null and changes nothing either.  Below capacity the connection is
\* accepted.
C2_RejectedAtCapacity ==
    /\ [](\A s \in DOMAIN sockets :
            sockets[s].closeCode = PolicyViolation =>
                /\ s \notin DOMAIN connections
                /\ ~sockets[s].handlers
                /\ sockets[s].sent = <<>>
                /\ sockets[s].removed = 0)
    /\ [](Cardinality(DOMAIN connections) >= maxConnections =>
            LET arrived == MapSet(sockets, nextId, NewSocket)
                a == addConnection(M(connections, arrived), nextId, now)
            IN  a.ret = 0 /\ a.conns = connections /\ a.socks = arrived)
    /\ [][lastOp'.op = "connection" =>
            IF Cardinality(DOMAIN connections) >= maxConnections
            THEN /\ lastOp'.ret = "rejected"
                 /\ lastOp'.send = "none"
                 /\ connections' = connections
                 /\ \A s \in DOMAIN sockets : sockets'[s] = sockets[s]
                 /\ sockets'[lastOp'.id] =
                        [NewSocket EXCEPT !.readyState = "CLOSING",
                                          !.closeCode = PolicyViolation,
                                          !.closeCalls = 1]
            ELSE lastOp'.ret = "accepted"]_vars

C2_Witness ==
    /\ lastOp.op = "connection"
    /\ lastOp.ret = "rejected"
    /\ sockets[lastOp.id].closeCode = PolicyViolation
    /\ Cardinality(DOMAIN connections) = maxConnections

\* C3: every connection in the table was sent the 'connected' message of
\* the current session as the first message on its socket, and no socket
\* was sent 'connected' a second time.
C3_ConnectedFirstOnce ==
    /\ \A s \in DOMAIN connections :
        /\ sessionConfig # 0
        /\ Len(sockets[s].sent) >= 1
        /\ sockets[s].sent[1] = ConnectedMessage(sessionConfig)
    /\ \A s \in DOMAIN sockets :
        \A i \in 2..Len(sockets[s].sent) : sockets[s].sent[i].type # "connected"

\* a connection that was sent a later message after its 'connected'
C3_Witness ==
    \E s \in DOMAIN connections :
        /\ Len(sockets[s].sent) = 2
        /\ sockets[s].sent[1].type = "connected"
        /\ sockets[s].sent[2].type = "pong"

\* C4: one broadcast sends the message exactly once to every connection of
\* the table whose socket is open and whose send() does not throw, and
\* leaves its entry alone; a connection whose send() throws gets nothing and
\* is removed, without keeping the message from the others.
C4_BroadcastEachOpenOnce ==
    [][(lastOp'.op = "stop" /\ lastOp'.ret = "server_closing") =>
        \A s \in DOMAIN connections :
            sockets[s].readyState = "OPEN" =>
                IF s \in lastOp'.ids
                THEN /\ s \notin DOMAIN connections'
                     /\ sockets'[s].sent = sockets[s].sent
                ELSE /\ s \in DOMAIN connections'
                     /\ connections'[s] = connections[s]
                     /\ sockets'[s].readyState = "OPEN"
                     /\ sockets'[s].sent =
                            IF Len(sockets[s].sent) < MaxSent
                            THEN Append(sockets[s].sent,
                                        ServerClosingMessage("Server is shutting down"))
                            ELSE sockets[s].sent]_vars

\* a broadcast in which one send() threw and another delivered
C4_Witness ==
    /\ lastOp.op = "stop"
    /\ lastOp.ret = "server_closing"
    /\ lastOp.ids # {}
    /\ \E s \in DOMAIN connections :
          sockets[s].sent = <<ConnectedMessage(sessionConfig),
                              ServerClosingMessage("Server is shutting down")>>

\* C5: sendToClient returns true only when the payload was sent; when it
\* returns false for an id that was in the table, the connection is no
\* longer in the table.
C5_SendFailureRemoves ==
    (lastOp.op \in {"message", "connection"} /\ lastOp.id # 0) =>
        /\ lastOp.send = "true" =>
              /\ lastOp.id \in DOMAIN connections
              /\ sockets[lastOp.id].sent # <<>>
              /\ \/ Len(sockets[lastOp.id].sent) = MaxSent
                 \/ sockets[lastOp.id].sent[Len(sockets[lastOp.id].sent)] =
                        IF lastOp.op = "message" THEN PongMessage
                        ELSE ConnectedMessage(sessionConfig)
        /\ lastOp.send = "false" => lastOp.id \notin DOMAIN connections

\* C6: removeConnection of an id in the table closes the socket if it is
\* open, deletes the entry and returns true; of an id not in the table it
\* returns false and changes nothing; so a second call for the same id
\* changes nothing.
C6_RemoveIdempotent ==
    /\ [](\A id \in 1..MaxSockets :
            LET r1 == removeConnection(M(connections, sockets), id)
                r2 == removeConnection(M(r1.conns, r1.socks), id)
            IN  /\ r1.ret = (id \in DOMAIN connections)
                /\ id \notin DOMAIN r1.conns
                /\ r2.ret = FALSE
                /\ r2.conns = r1.conns
                /\ r2.socks = r1.socks)
    /\ [][lastOp'.op \in {"close", "error"} =>
            LET s == lastOp'.id IN
            IF s \in DOMAIN connections
            THEN /\ lastOp'.ret = "true"
                 /\ connections' = MapDelete(connections, s)
                 /\ lastOp'.op = "error" =>
                      /\ sockets'[s].readyState = "CLOSING"
                      /\ sockets'[s].closeCalls = sockets[s].closeCalls +
                            (IF sockets[s].readyState = "OPEN" THEN 1 ELSE 0)
                      /\ \A z \in DOMAIN sockets \ {s} : sockets'[z] = sockets[z]
            ELSE /\ lastOp'.ret = "false"
                 /\ connections' = connections
                 /\ lastOp'.op = "error" => sockets' = sockets]_vars

\* an 'error' on a socket whose entry was removed before
C6_Witness ==
    /\ lastOp.op = "error"
    /\ lastOp.ret = "false"
    /\ sockets[lastOp.id].removed = 1

\* C7: whatever combination of failed send, transport error, close event,
\* missed probe and timeout hits an accepted connection, its entry is
\* deleted exactly once and the server calls close() on its socket at most
\* once; a deleted entry is not in the table.
C7_DestroyedOnce ==
    /\ DOMAIN connections \subseteq DOMAIN sockets
    /\ \A s \in DOMAIN sockets :
        /\ sockets[s].removed <= 1
        /\ sockets[s].closeCalls <= 1
        /\ s \in DOMAIN connections =>
              sockets[s].removed = 0 /\ sockets[s].closeCalls = 0
        /\ (sockets[s].handlers /\ s \notin DOMAIN connections) =>
              sockets[s].removed = 1

\* an 'error' reaches, after a sweep, a connection the server destroyed
C7_Witness ==
    /\ lastOp.op = "error"
    /\ now >= pingInterval
    /\ sockets[lastOp.id].removed = 1
    /\ sockets[lastOp.id].closeCalls = 1

\* C8: a connection that does not answer is removed no later than the
\* second probe sweep after it was added or last answered: no entry of the
\* table has been visited by two probe sweeps without an answer in between,
\* an entry is marked not alive exactly while one such sweep has visited it,
\* and the sweeps are scheduled whenever the table has an entry.
C8_SilentRemovedBySecondSweep ==
    /\ \A s \in DOMAIN connections :
        /\ connections[s].sweeps <= 1
        /\ (connections[s].sweeps = 1) <=> ~connections[s].isAlive
        /\ sockets[s].removed = 0
    /\ connections # EmptyMap => (pingTimer /\ pingAt >= now)

\* the second probe sweep has just removed a silent connection
C8_Witness ==
    /\ lastOp.op = "probe sweep"
    /\ lastOp.ret = "removed"
    /\ now = 2 * pingInterval
    /\ \E s \in DOMAIN sockets \ DOMAIN connections :
          sockets[s].removed = 1 /\ sockets[s].closeCalls = 1

\* C9: disconnectAll closes every open connection of the table, empties the
\* table and cancels both sweeps; called again, it closes nothing further.
C9_DisconnectAll ==
    [][lastOp'.ret = "disconnectAll" =>
        /\ connections' = EmptyMap
        /\ ~pingTimer' /\ ~timeoutTimer'
        /\ lastOp'.op # "deactivate" =>
             /\ DOMAIN sockets' = DOMAIN sockets
             /\ \A s \in DOMAIN sockets :
                  sockets'[s] =
                    IF s \notin DOMAIN connections THEN sockets[s]
                    ELSE IF sockets[s].readyState = "OPEN"
                    THEN [sockets[s] EXCEPT !.readyState = "CLOSING",
                                            !.closeCode = 0,
                                            !.closeCalls = @ + 1,
                                            !.removed = @ + 1]
                    ELSE [sockets[s] EXCEPT !.removed = @ + 1]
             /\ (~pingTimer /\ ~timeoutTimer) => sockets' = sockets]_vars

\* the second disconnectAll has run, after the first closed a connection
C9_Witness ==
    /\ lastOp.op = "grace elapsed"
    /\ lastOp.id = 2
    /\ lastOp.ret = "disconnectAll"
    /\ \E s \in DOMAIN sockets :
          sockets[s].closeCalls = 1 /\ sockets[s].removed = 1

\* C10: an inbound message that does not parse to a JSON object is dropped:
\* the handler returns normally, no socket is closed, no message is sent and
\* the table is unchanged.
C10_UnparsableDropped ==
    /\ [](\A s \in DOMAIN connections, rawMessage \in {"not json", "null"},
            requireAuth \in BOOLEAN, throws \in BOOLEAN :
            LET r == onMessage(M(connections, sockets), s, rawMessage,
                               requireAuth, now, throws)
            IN  /\ r.ret = "dropped"
                /\ r.send = "none"
                /\ r.conns = connections
                /\ r.socks = sockets)
    /\ [][(lastOp'.op = "message" /\ lastOp'.ret = "dropped") =>
            (connections' = connections /\ sockets' = sockets)]_vars

C10_Witness ==
    /\ lastOp.op = "message"
    /\ lastOp.ret = "dropped"
    /\ connections # EmptyMap
    /\ \E s \in DOMAIN connections : sockets[s].readyState = "OPEN"

\* C11: an inbound 'ping' from a connection of the table sets its lastPing
\* to now and its isAlive to true and, when the send succeeds, appends
\* exactly one 'pong' to that connection's socket; a send that fails leaves
\* no pong; no other socket and no other entry is touched.
C11_PingAnswered ==
    [][(lastOp'.op = "message" /\ lastOp'.ret = "ping") =>
        LET s == lastOp'.id IN
        /\ \A z \in DOMAIN sockets \ {s} : sockets'[z] = sockets[z]
        /\ \A z \in DOMAIN connections \ {s} :
              z \in DOMAIN connections' /\ connections'[z] = connections[z]
        /\ IF s \in DOMAIN connections
           THEN IF lastOp'.send = "true"
                THEN /\ s \in DOMAIN connections'
                     /\ connections'[s].lastPing = now
                     /\ connections'[s].isAlive
                     /\ sockets[s].readyState = "OPEN"
                     /\ sockets'[s].sent =
                            IF Len(sockets[s].sent) < MaxSent
                            THEN Append(sockets[s].sent, PongMessage)
                            ELSE sockets[s].sent
                ELSE /\ sockets'[s].sent = sockets[s].sent
                     /\ s \in DOMAIN connections' =>
                          /\ connections'[s].lastPing = now
                          /\ connections'[s].isAlive
           ELSE connections' = connections /\ sockets' = sockets]_vars

\* a ping was answered after a probe sweep had run
C11_Witness ==
    /\ lastOp.op = "message"
    /\ lastOp.ret = "ping"
    /\ lastOp.send = "true"
    /\ now = pingInterval
    /\ pingAt = 2 * pingInterval
    /\ timeoutAt = timeoutInterval
    /\ lastOp.id \in DOMAIN connections
    /\ connections[lastOp.id].lastPing = now
    /\ sockets[lastOp.id].sent = <<ConnectedMessage(sessionConfig), PongMessage>>

\* C12: an inbound message that parses and whose kind is 'auth', another
\* kind than 'ping', or no kind at all is ignored: the handler returns
\* normally, nothing is sent and no entry of the table changes.
C12_OtherKindsIgnored ==
    /\ [](\A s \in DOMAIN connections,
            rawMessage \in {"{}", "{type:auth}", "{type:pong}", "{type:hello}"},
            requireAuth \in BOOLEAN, throws \in BOOLEAN :
            LET r == onMessage(M(connections, sockets), s, rawMessage,
                               requireAuth, now, throws)
            IN  /\ r.ret = "ignored"
                /\ r.send = "none"
                /\ r.conns = connections
                /\ r.socks = sockets)
    /\ [][(lastOp'.op = "message" /\ lastOp'.ret = "ignored") =>
            (connections' = connections /\ sockets' = sockets)]_vars

\* a message was ignored while a connection was marked not alive
C12_Witness ==
    /\ lastOp.op = "message"
    /\ lastOp.ret = "ignored"
    /\ \E s \in DOMAIN connections : ~connections[s].isAlive

\* C15: for every include list and exclude list, a path that does not lie
\* within the workspace root is denied by the filter.
C15_OutsideDenied ==
    filterCall.pc = "returned" =>
        LET n == normalize(filterCall.filePath)
            within == /\ Len(n) > Len(WorkspaceRoot)
                      /\ SubSeq(n, 1, Len(WorkspaceRoot)) = WorkspaceRoot
        IN  ~within => ~filterCall.result

\* C16: a path inside the workspace that matches at least one exclude
\* pattern in force is denied, whether or not it matches an include
\* pattern and whatever its extension.
C16_ExcludeWins ==
    filterCall.pc = "returned" =>
        LET n == normalize(filterCall.filePath)
            within == /\ Len(n) > Len(WorkspaceRoot)
                      /\ SubSeq(n, 1, Len(WorkspaceRoot)) = WorkspaceRoot
            rel == SubSeq(n, Len(WorkspaceRoot) + 1, Len(n))
            excludes == loadConfiguration(filterCall.config).excludePatterns
        IN  (within /\ \E i \in 1..Len(excludes) : minimatch(rel, excludes[i]))
                => ~filterCall.result

\* a path that matches a configured exclude pattern and an include pattern
C16_Witness ==
    /\ filterCall.pc = "returned"
    /\ filterCall.filePath = << <<"ws">>, <<"src">>, <<"a", ".", "ts">> >>
    /\ filterCall.config.excludePatterns =
           Setting(<< <<GLOBSTAR, <<"*", ".", "ts">> >> >>)
    /\ filterCall.config.includePatterns = Setting(<< <<<<"src">>, GLOBSTAR>> >>)
    /\ ~filterCall.result

\* C17: a path inside the workspace of one of the default exclusion classes
\* (.env, .env.*, *.key, *.pem, *.p12, *.pfx, credentials.json,
\* node_modules, .git, .vscode) is denied whatever exclude list the user
\* configured, the empty list included.
C17_DefaultExclusionsStay ==
    filterCall.pc = "returned" =>
        LET n == normalize(filterCall.filePath)
            within == /\ Len(n) > Len(WorkspaceRoot)
                      /\ SubSeq(n, 1, Len(WorkspaceRoot)) = WorkspaceRoot
            rel == SubSeq(n, Len(WorkspaceRoot) + 1, Len(n))
        IN  (within /\ \E i \in 1..Len(DefaultExcludePatterns) :
                          minimatch(rel, DefaultExcludePatterns[i]))
                => ~filterCall.result

\* C14: no file_switch or file_update is broadcast for a document the
\* filter policy denies when it is sent: a document outside the workspace,
\* matching an exclude pattern, matching no include pattern when some are
\* set, with a binary extension, or over the size limit.
C14_DeniedNeverSent ==
    \A i \in 1..Len(outbox) :
        outbox[i].type \in {"file_switch", "file_update"} =>
            LET d == Document(outbox[i].document)
                n == normalize(d.fsPath)
                within == /\ Len(n) > Len(WorkspaceRoot)
                          /\ SubSeq(n, 1, Len(WorkspaceRoot)) = WorkspaceRoot
                rel == SubSeq(n, Len(WorkspaceRoot) + 1, Len(n))
                config == loadConfiguration(settings)
            IN  /\ within
                /\ \A k \in 1..Len(config.excludePatterns) :
                       ~minimatch(rel, config.excludePatterns[k])
                /\ \/ Len(config.includePatterns) = 0
                   \/ \E k \in 1..Len(config.includePatterns) :
                          minimatch(rel, config.includePatterns[k])
                /\ ~isBinaryFile(d.fsPath)
                /\ d.length <= config.maxFileSize

\* C18: an active-editor event for the document that is already current
\* changes nothing: the current document stays, a pending debounce timer
\* is neither cancelled nor restarted, and no file_switch is sent.
C18_SameDocumentNoOp ==
    [][(/\ lastOp'.op = "editor change"
        /\ lastOp'.document # ""
        /\ lastOp'.document = fileSync.currentDocument)
       => /\ fileSync'.currentDocument = fileSync.currentDocument
          /\ (fileSync.debounceTimer.state = "pending"
                => fileSync'.debounceTimer = fileSync.debounceTimer)
          /\ outbox' = <<>>]_vars

\* C19: an active-editor event for a document other than the current one
\* makes it the current document and, in the same step (no debounce),
\* broadcasts exactly one file_switch for it when the document may be
\* synced and nothing when it may not.
C19_SwitchImmediate ==
    [][(/\ lastOp'.op = "editor change"
        /\ lastOp'.document # ""
        /\ lastOp'.document # fileSync.currentDocument)
       => /\ fileSync'.currentDocument = lastOp'.document
          /\ fileSync'.debounceTimer.state # "pending"
          /\ outbox' = IF shouldSyncFile(lastOp'.document, settings,
                                         closedDocuments)
                       THEN <<FileSwitchMessage(lastOp'.document,
                                                documentText[lastOp'.document],
                                                TRUE)>>
                       ELSE <<>>]_vars

\* the editor moves to a.ts while a viewer is connected, and the viewer is
\* sent the file_switch
C19_Witness ==
    /\ lastOp.op = "editor change"
    /\ lastOp.document = "a.ts"
    /\ fileSync.currentDocument = "a.ts"
    /\ outbox = <<FileSwitchMessage("a.ts", documentText["a.ts"], TRUE)>>
    /\ \E s \in DOMAIN connections :
          sockets[s].sent = <<ConnectedMessage(sessionConfig),
                              FileSwitchMessage("a.ts", documentText["a.ts"], TRUE)>>

\* C20: once the editor has switched from a document with a pending
\* debounce timer to another document, no file_update for the first
\* document comes from the edits made before the switch: a switch leaves no
\* timer pending, a pending timer always belongs to the current document,
\* and a file_update is only sent by a pending timer, for the document
\* whose edit set it.
C20_NoStaleUpdate ==
    /\ [](fileSync.debounceTimer.state = "pending"
            => fileSync.debounceTimer.document = fileSync.currentDocument)
    /\ [][fileSync'.currentDocument # fileSync.currentDocument
            => fileSync'.debounceTimer.state # "pending"]_vars
    /\ [][\A i \in 1..Len(outbox') :
            outbox'[i].type = "file_update" =>
               /\ outbox # outbox'
               /\ fileSync.debounceTimer.state = "pending"
               /\ outbox'[i].document = fileSync.debounceTimer.document
               /\ outbox'[i].document = fileSync.currentDocument]_vars

\* the editor has just left a document whose edit was waiting for the
\* debounce, for another document whose file_switch is sent
C20_Witness ==
    /\ lastOp.op = "editor change"
    /\ lastOp.ret = "clearTimeout"
    /\ fileSync.currentDocument = lastOp.document
    /\ fileSync.debounceTimer = NoTimer
    /\ outbox = <<FileSwitchMessage(lastOp.document,
                                    documentText[lastOp.document], TRUE)>>

\* C13: for every outbound message (connected, file_update, file_switch,
\* stats, server_closing, pong) and every payload, decoding the encoded
\* wire message gives back the kind and every field of the payload (a
\* field that was undefined reads as undefined), and nothing else.
C13_RoundTrip ==
    codec.pc = "received" =>
        /\ codec.received.t = "object"
        /\ member(codec.received, <<"type">>) = member(codec.message, <<"type">>)
        /\ \A i \in 1..Len(codec.message.o) :
              member(codec.received, codec.message.o[i][1])
                  = codec.message.o[i][2]
        /\ \A i \in 1..Len(codec.received.o) :
              member(codec.message, codec.received.o[i][1])
                  = codec.received.o[i][2]

\* a file_switch whose content holds a backslash and a line feed, with a
\* cursor position, has been sent and read back
C13_Witness ==
    /\ codec.pc = "received"
    /\ member(codec.message, <<"type">>) = Str(<<"file_switch">>)
    /\ member(codec.message, <<"content">>) = Str(<<"\\", "n", "LF">>)
    /\ member(codec.received, <<"cursorPosition">>) = cursor(12, 3)
    /\ Len(codec.json) > Len(codec.message.o)

\* C21: a burst of content changes to the current document, each arriving
\* while the debounce window of the one before is still open, followed by a
\* quiet debounce period, is answered by exactly one file_update, carrying
\* the document's text as of the last change: a content change sends
\* nothing and (re)sets the timer, the timer sends one file_update with
\* that text when the document may be synced, and nothing else sends a
\* file_update.
C21_BurstCoalesced ==
    /\ [][lastOp'.op = "document change"
            => /\ outbox' = <<>>
               /\ fileSync'.debounceTimer.state = "pending"
               /\ fileSync'.debounceTimer.document = lastOp'.document
               /\ fileSync'.debounceTimer.content
                      = documentText'[lastOp'.document]]_vars
    /\ [][(/\ lastOp'.op = "debounce"
           /\ shouldSyncFile(fileSync.currentDocument, settings, closedDocuments))
            => /\ outbox' = <<FileUpdateMessage(fileSync.debounceTimer.document,
                                                fileSync.debounceTimer.content,
                                                fileSync.activeEditor # "")>>
               /\ fileSync'.debounceTimer.state = "fired"]_vars
    /\ [](\A i \in 1..Len(outbox) :
             outbox[i].type = "file_update" => lastOp.op = "debounce")

\* two content changes to a.ts were coalesced into one file_update, with
\* the text the second change left
C21_Witness ==
    /\ lastOp.op = "debounce"
    /\ fileSync.debounceTimer.state = "fired"
    /\ fileSync.debounceTimer.events = 2
    /\ outbox = <<FileUpdateMessage("a.ts", 2, TRUE)>>
    /\ documentText["a.ts"] = 2

\* C22: the last text of an edit burst is never lost: once a content change
\* to the current document has set the debounce timer, and as long as the
\* presenter does not switch to another document and the engine is not
\* stopped, every step leaves the update either still pending or sent as a
\* file_update with the document's text (unless the document may not be
\* synced).
C22_PendingUpdateKept ==
    [][(/\ fileSync.debounceTimer.state = "pending"
        /\ fileSync'.started
        /\ fileSync'.currentDocument = fileSync.currentDocument)
       => \/ fileSync'.debounceTimer.state = "pending"
          \/ \E i \in 1..Len(outbox') :
                /\ outbox'[i].type = "file_update"
                /\ outbox'[i].document = fileSync.currentDocument
                /\ outbox'[i].content = documentText'[fileSync.currentDocument]
          \/ ~shouldSyncFile(fileSync.currentDocument, settings',
                             closedDocuments')]_vars

\* C23: stopping the engine cancels the pending debounce timer and clears
\* the current document, and while the engine is stopped no file_switch or
\* file_update is broadcast and no timer is left to send one, also for an
\* edit whose debounce window was open at the stop.
C23_StopSilences ==
    /\ [][(fileSync.started /\ ~fileSync'.started)
            => /\ fileSync'.debounceTimer = NoTimer
               /\ fileSync'.currentDocument = ""
               /\ outbox' = <<>>]_vars
    /\ [](~fileSync.started
            => /\ fileSync.debounceTimer.state # "pending"
               /\ \A i \in 1..Len(outbox) :
                     outbox[i].type \notin {"file_switch", "file_update"})
    /\ [][~fileSync'.started
            => \A s \in DOMAIN sockets :
                 \A i \in 1..Len(sockets'[s].sent) :
                    sockets'[s].sent[i].type \in {"file_switch", "file_update"}
                       => /\ i <= Len(sockets[s].sent)
                          /\ sockets[s].sent[i] = sockets'[s].sent[i]]_vars

\* the session was stopped while an edit to a.ts was waiting for the
\* debounce
C23_Witness ==
    /\ lastOp.op = "stop"
    /\ lastOp.document = "a.ts"
    /\ documentText["a.ts"] > 0
    /\ fileSync = NewFileSync
    /\ outbox = <<>>

\* C24: when the listener cannot bind, the failure is reported and the
\* session is left as one that was never started: the instance is dropped,
\* there is no session config, no WebSocket server object, no heartbeat timer,
\* no running sync engine and no accepted connection.
C24_FailedStartClean ==
    [][(httpServer = "created" /\ httpServer' = "failed") =>
          /\ ~serverInstance'
          /\ connections' = EmptyMap
          /\ sessionConfig' = 0
          /\ wsServer' = "undefined"
          /\ ~pingTimer' /\ ~timeoutTimer'
          /\ ~fileSync'.started]_vars

\* The shutdown steps of a session are callbacks of the event loop: the grace
\* timer and the two close callbacks run however many other events arrive,
\* and a handler that has started returns.
SpecLifecycleFair ==
    /\ SpecLifecycle
    /\ WF_vars(Return)
    /\ SF_vars(GraceElapsed)
    /\ SF_vars(WsServerClosed)
    /\ SF_vars(HttpServerClosed)

\* C25: stop() on a listening session with viewers, no dispose() running
\* beside it, sends server_closing to every viewer with an open socket and
\* closes none of them; when the grace period is over it closes every
\* connection and empties the table, then closes the WebSocket server and
\* then the listener, and the session ends stopped.  With no viewer it sends
\* nothing and starts closing at once.
C25_StopSequence ==
    /\ [][(lastOp'.op = "stop" /\ stopPc[1] = "idle" /\ httpServer = "listening"
             /\ connections # EmptyMap) =>
            /\ stopPc'[1] = "grace"
            /\ wsServer' = "running" /\ httpServer' = "listening"
            /\ \A s \in OpenIds(connections, sockets) \ lastOp'.ids :
                 /\ s \in DOMAIN connections'
                 /\ sockets'[s] =
                      wsSend(sockets, s,
                             ServerClosingMessage("Server is shutting down"))[s]
                 /\ sockets'[s].readyState = "OPEN"]_vars
    /\ [][(lastOp'.op = "stop" /\ stopPc[1] = "idle" /\ httpServer = "listening"
             /\ connections = EmptyMap) =>
            /\ sockets' = sockets
            /\ stopPc'[1] = "wsClosing"
            /\ wsServer' = "closing"]_vars
    /\ [][(stopPc[1] = "grace" /\ stopPc'[1] # "grace" /\ stopPc[2] = "idle") =>
            /\ connections' = EmptyMap
            /\ \A s \in DOMAIN connections : sockets'[s].readyState # "OPEN"
            /\ stopPc'[1] = "wsClosing"
            /\ wsServer' = "closing"]_vars
    /\ []((stopPc[1] = "httpClosing" /\ stopPc[2] = "idle") =>
            wsServer = "undefined" /\ httpServer = "closing")
    /\ []((stopPc[1] = "done" /\ stopPc[2] = "idle") =>
            /\ connections = EmptyMap
            /\ wsServer = "undefined"
            /\ httpServer = "undefined")
    /\ (stopPc[1] \in {"grace", "wsClosing"}) ~> (stopPc[1] = "done")

\* a stop with a viewer connected has run to its end
C25_Witness ==
    /\ stopPc[1] = "done"
    /\ stopPc[2] = "idle"
    /\ httpServer = "undefined"
    /\ \E s \in DOMAIN sockets :
         /\ sockets[s].readyState # "OPEN"
         /\ \E i \in 1..Len(sockets[s].sent) :
              sockets[s].sent[i] = ServerClosingMessage("Server is shutting down")

\* C26: dispose() is safe in every state.  On a session that is already
\* stopped it sends nothing and changes nothing; on a session that is
\* draining (deactivate calls it right after stop()) it sends no message.
C26_DisposeSafe ==
    /\ [][(lastOp'.op = "stop" /\ stopPc[1] = "done") =>
            /\ lastOp'.ret = "none"
            /\ stopPc'[2] = "done"
            /\ <<connections, sockets, pingTimer, timeoutTimer, wsServer,
                 httpServer, sessionConfig>>' =
               <<connections, sockets, pingTimer, timeoutTimer, wsServer,
                 httpServer, sessionConfig>>]_vars
    /\ [][lastOp'.op = "deactivate" => lastOp'.ret # "server_closing"]_vars

\* The lifecycle state of the session, read from the fields start() and
\* stop() assign: the listener, and how far each running stop() has come.
sessionState ==
    IF \E k \in 1..2 : stopPc[k] \in {"grace", "wsClosing", "httpClosing"}
    THEN "Draining"
    ELSE IF stopPc[1] = "done" THEN "Stopped"
    ELSE CASE httpServer = "undefined" -> "Idle"
           [] httpServer = "created"   -> "Starting"
           [] httpServer = "listening" -> "Listening"
           [] httpServer = "failed"    -> "Failed"
           [] OTHER                    -> "Draining"

\* C27: whatever the order of start, stop, dispose and the outcome of the
\* bind, the session moves only along Idle, Starting, Listening, Draining,
\* Stopped and Idle, Starting, Failed, Idle; a start takes effect only in
\* Idle and the session id of a session that is not Idle is never replaced.
C27_LifecycleOrder ==
    /\ [][sessionState' # sessionState =>
            <<sessionState, sessionState'>> \in
              {<<"Idle", "Starting">>, <<"Starting", "Listening">>,
               <<"Listening", "Draining">>, <<"Draining", "Stopped">>,
               <<"Starting", "Failed">>, <<"Failed", "Idle">>}]_vars
    /\ [][sessionConfig' # sessionConfig => sessionState = "Idle"]_vars

\* C28: a stop() issued while the bind is pending is refused or deferred:
\* as long as the listener has not reported, the WebSocket server is not
\* closed and no stop() is under way, and the listener is closed only after
\* it was listening.
C28_StopWhileStartingDeferred ==
    /\ [](httpServer = "created" =>
            wsServer = "running" /\ stopPc = <<"idle", "idle">>)
    /\ [][httpServer' = "closing" =>
            httpServer \in {"listening", "closing"}]_vars

\* C29: a broadcast removes no entry of the table while its delivery pass
\* iterates; the pass collects exactly the connections whose socket is not
\* open or whose send() throws, and after the pass exactly these are removed
\* (once each), every other entry staying in the table as it was.
C29_DeadRemovedAfterPass ==
    [][(lastOp'.op = "stop" /\ lastOp'.ret = "server_closing") =>
        LET dead == {s \in DOMAIN connections :
                        sockets[s].readyState # "OPEN" \/ s \in lastOp'.ids}
            pass == broadcastPass(M(connections, sockets),
                                  InsertionOrder(DOMAIN connections),
                                  ServerClosingMessage("Server is shutting down"),
                                  lastOp'.ids, <<>>)
        IN  /\ pass.conns = connections
            /\ {pass.dead[i] : i \in DOMAIN pass.dead} = dead
            /\ Len(pass.dead) = Cardinality(dead)
            /\ DOMAIN connections' = DOMAIN connections \ dead
            /\ \A s \in DOMAIN connections' : connections'[s] = connections[s]
            /\ \A s \in DOMAIN connections :
                 sockets'[s].removed =
                     sockets[s].removed + (IF s \in dead THEN 1 ELSE 0)]_vars

\* a broadcast that found one socket of the table not open and removed its
\* entry, and delivered to another
C29_Witness ==
    /\ lastOp.op = "stop"
    /\ lastOp.ret = "server_closing"
    /\ lastOp.ids = {}
    /\ \E s \in DOMAIN sockets :
         /\ s \notin DOMAIN connections
         /\ sockets[s].removed = 1
         /\ sockets[s].closeCalls = 0
    /\ \E s \in DOMAIN connections :
         /\ sockets[s].readyState = "OPEN"
         /\ sockets[s].sent[Len(sockets[s].sent)] =
               ServerClosingMessage("Server is shutting down")

\* C30: a probe sweep removes every connection that is still waiting for an
\* answer to the previous probe, and marks every other connection as waiting
\* and probes it when its socket is open; the mark is cleared by a pong and by
\* a ping message from the connection, and by nothing else.
C30_ProbeSweep ==
    /\ [][lastOp'.op = "probe sweep" =>
            /\ DOMAIN connections' =
                 {s \in DOMAIN connections : connections[s].isAlive}
            /\ \A s \in DOMAIN connections' :
                 connections'[s] =
                    [connections[s] EXCEPT !.isAlive = FALSE, !.sweeps = @ + 1]
            /\ lastOp'.ids = {s \in DOMAIN connections' :
                                 sockets[s].readyState = "OPEN"}
            /\ \A s \in DOMAIN connections \ DOMAIN connections' :
                 sockets'[s].removed = sockets[s].removed + 1]_vars
    /\ [](\A s \in DOMAIN connections :
            LET r == onPong(M(connections, sockets), s, now)
            IN  /\ r.conns[s].isAlive
                /\ DOMAIN r.conns = DOMAIN connections
                /\ r.socks = sockets)
    /\ [][\A s \in DOMAIN connections \cap DOMAIN connections' :
            (~connections[s].isAlive /\ connections'[s].isAlive) =>
               /\ connections'[s].lastPing = now
               /\ \/ (lastOp'.op = "message" /\ lastOp'.ret = "ping"
                        /\ lastOp'.id = s)
                  \/ (lastOp' = NoOp /\ sockets' = sockets
                        /\ connections' = onPong(M(connections, sockets), s,
                                                 now).conns)]_vars

\* the second sweep removed a connection that never answered and probed
\* again an older one whose pong had cleared its mark
C30_Witness ==
    /\ lastOp.op = "probe sweep"
    /\ lastOp.ret = "removed"
    /\ lastOp.ids = {1}
    /\ 1 \in DOMAIN connections
    /\ connections[1].lastPing = pingInterval
    /\ ~connections[1].isAlive
    /\ sockets[1].sent = <<ConnectedMessage(sessionConfig)>>
    /\ 2 \in DOMAIN sockets \ DOMAIN connections
    /\ sockets[2].removed = 1 /\ sockets[2].closeCalls = 1

(***************************************************************************)
(* The two sweeps as functions of the table.  lastPing and the sweep time  *)
(* are readings of Date.now(), the wall clock, which can move on by any    *)
(* amount between two callbacks (the machine was suspended, the event loop *)
(* was blocked): the table a sweep finds can hold any combination of       *)
(* lastPing, isAlive and socket state.  InitSweep draws a listening        *)
(* session with such a table and both sweeps due.                          *)
(***************************************************************************)
SweepTimes == {2 * pingInterval, 3 * pingInterval, 4 * pingInterval}
LastPings == {0, pingInterval, 2 * pingInterval}

SweepEntries ==
    [lastPing : LastPings, isAlive : BOOLEAN, readyState : {"OPEN", "CLOSING"}]

InitSweep ==
    /\ \E n \in 1..maxConnections : \E e \in [1..n -> SweepEntries] :
         /\ connections =
              [s \in 1..n |-> [lastPing |-> e[s].lastPing,
                               isAlive |-> e[s].isAlive,
                               sweeps |-> IF e[s].isAlive THEN 0 ELSE 1]]
         /\ sockets =
              [s \in 1..n |-> [NewSocket EXCEPT
                                  !.readyState = e[s].readyState,
                                  !.sent = <<ConnectedMessage(1)>>,
                                  !.handlers = TRUE]]
         /\ nextId = n + 1
    /\ now \in SweepTimes
    /\ pingTimer = TRUE
    /\ timeoutTimer = TRUE
    /\ pingAt = now
    /\ timeoutAt = now
    /\ sessionConfig = 1
    /\ httpServer = "listening"
    /\ wsServer = "running"
    /\ stopPc = [k \in 1..2 |-> "idle"]
    /\ serverInstance = TRUE
    /\ started = 1
    /\ lastOp = NoOp
    /\ settings = DefaultSettings
    /\ activeTextEditor = ""
    /\ closedDocuments = {}
    /\ documentText = [document \in Documents |-> 0]
    /\ fileSync = fileSyncStart("", DefaultSettings, {}, documentText).f
    /\ outbox = <<>>
    /\ codec = [pc |-> "idle"]
    /\ filterCall = [pc |-> "idle"]

NextSweep ==
    \/ ProbeSweep
    \/ TimeoutSweep
    \/ Return

SpecSweep == InitSweep /\ [][NextSweep]_vars

\* C31: a timeout sweep removes every connection whose lastPing is more
\* than timeoutInterval before the time of the sweep, whether or not it is
\* waiting for a pong, and no other connection; the entries that stay are
\* not changed.
C31_TimeoutSweep ==
    [][timeoutAt' # timeoutAt =>
        LET old == {s \in DOMAIN connections :
                       now - connections[s].lastPing > timeoutInterval}
        IN  /\ DOMAIN connections' = DOMAIN connections \ old
            /\ \A s \in DOMAIN connections' : connections'[s] = connections[s]
            /\ \A s \in DOMAIN sockets :
                 sockets'[s] =
                   IF s \notin old THEN sockets[s]
                   ELSE IF sockets[s].readyState = "OPEN"
                   THEN [sockets[s] EXCEPT !.readyState = "CLOSING",
                                           !.closeCode = 0,
                                           !.closeCalls = @ + 1,
                                           !.removed = @ + 1]
                   ELSE [sockets[s] EXCEPT !.removed = @ + 1]]_vars

\* the timeout sweep ran before the probe sweep: it removed a connection
\* and kept one that is waiting for a pong and whose lastPing is exactly
\* timeoutInterval old
C31_Witness ==
    /\ timeoutAt = now + timeoutInterval
    /\ pingAt = now
    /\ 1 \in DOMAIN sockets \ DOMAIN connections
    /\ sockets[1].removed = 1
    /\ 2 \in DOMAIN connections
    /\ ~connections[2].isAlive
    /\ now - connections[2].lastPing = timeoutInterval

\* C32: while the sync engine runs, a document that is open is allowed by
\* the filter exactly when its path lies within the workspace root, its
\* workspace-relative path matches no exclude pattern, the include list is
\* empty or one of its patterns matches, its extension is not a binary one
\* and its size is not above maxFileSize.
C32_AllowedIffAllRules ==
    fileSync.started =>
        \A document \in Documents \ closedDocuments :
            LET d == Document(document)
                n == normalize(d.fsPath)
                within == /\ Len(n) > Len(WorkspaceRoot)
                          /\ SubSeq(n, 1, Len(WorkspaceRoot)) = WorkspaceRoot
                rel == SubSeq(n, Len(WorkspaceRoot) + 1, Len(n))
                config == loadConfiguration(settings)
            IN  shouldSyncFile(document, settings, closedDocuments) <=>
                    /\ within
                    /\ \A k \in 1..Len(config.excludePatterns) :
                           ~minimatch(rel, config.excludePatterns[k])
                    /\ \/ Len(config.includePatterns) = 0
                       \/ \E k \in 1..Len(config.includePatterns) :
                              minimatch(rel, config.includePatterns[k])
                    /\ ~isBinaryFile(d.fsPath)
                    /\ d.length <= config.maxFileSize

\* C33: a content-changed event for a document that is not the current one,
\* or one with no content change, is ignored: the sync engine, its current
\* document and its pending timer stay as they were and nothing is sent.
C33_ChangeIgnored ==
    /\ [](fileSync.started =>
            \A document \in Documents :
               /\ handleDocumentChange(fileSync, document, 0, documentText)
                     = fileSync
               /\ document # fileSync.currentDocument =>
                    handleDocumentChange(fileSync, document, 1, documentText)
                       = fileSync)
    /\ [][(\E document \in Documents \ {fileSync.currentDocument} :
              documentText'[document] # documentText[document]) =>
            /\ fileSync' = fileSync
            /\ outbox' = outbox
            /\ sockets' = sockets
            /\ lastOp' = NoOp]_vars

\* .env was edited while a.ts was the current document and its timer was
\* pending: the timer still stands as the edit of a.ts left it
C33_Witness ==
    /\ fileSync.currentDocument = "a.ts"
    /\ fileSync.debounceTimer =
          [state |-> "pending", document |-> "a.ts", content |-> 1, events |-> 1]
    /\ documentText["a.ts"] = 1
    /\ documentText[".env"] = 2
    /\ lastOp = NoOp

\* C34: when the debounce timer fires, the filter is asked with the settings
\* in force at that moment: if it allows the current document, one
\* file_update with the document's text of that moment is sent, and if it
\* denies it, nothing is sent, whatever the settings were when the document
\* was edited.
C34_FilterAtFireTime ==
    [][lastOp'.op = "debounce" =>
        LET d == fileSync.currentDocument IN
        /\ lastOp'.document = d
        /\ outbox' =
             IF d # "" /\ shouldSyncFile(d, settings, closedDocuments)
             THEN <<FileUpdateMessage(d, documentText[d],
                                      fileSync.activeEditor # "")>>
             ELSE <<>>]_vars

\* .env was shared while the exclude list was empty and edited; the default
\* exclusions are in force when the timer fires, and nothing is sent
C34_Witness ==
    /\ lastOp.op = "debounce"
    /\ lastOp.document = ".env"
    /\ outbox = <<>>
    /\ documentText[".env"] = 1
    /\ settings = DefaultSettings
    /\ \E s \in DOMAIN sockets :
         /\ Len(sockets[s].sent) = 2
         /\ sockets[s].sent[2] = FileSwitchMessage(".env", 0, TRUE)

\* C35: a change of the settings after which the filter denies the current
\* document sends nothing to any viewer, and no file_switch or file_update
\* is ever sent for a document that the filter denies under the settings in
\* force when it is sent.
C35_DeniedByReloadSilent ==
    /\ [][(/\ lastOp'.op = "configuration change"
           /\ fileSync.currentDocument # ""
           /\ ~shouldSyncFile(fileSync.currentDocument, settings',
                              closedDocuments)) =>
            /\ outbox' = <<>>
            /\ sockets' = sockets
            /\ connections' = connections
            /\ fileSync' = fileSync]_vars
    /\ [](\A i \in 1..Len(outbox) :
            outbox[i].type \in {"file_switch", "file_update"} =>
                shouldSyncFile(outbox[i].document, settings, closedDocuments))

\* .env had been shared under an empty exclude list; the settings go back to
\* the default exclusions and nothing is sent
C35_Witness ==
    /\ lastOp.op = "configuration change"
    /\ lastOp.document = ".env"
    /\ settings = DefaultSettings
    /\ outbox = <<>>
    /\ \E s \in DOMAIN sockets :
         /\ Len(sockets[s].sent) = 2
         /\ sockets[s].sent[2] = FileSwitchMessage(".env", 0, TRUE)

\* C36: a connection that has answered the last probe sent to it is removed
\* by neither sweep, in whichever order the two sweeps run when both are
\* due: the probe sweep keeps every entry that is not waiting for a pong, and
\* the timeout sweep keeps every entry that is not waiting or was probed by
\* the probe sweep of the same moment.
C36_AnsweringKept ==
    /\ [][lastOp'.op = "probe sweep" =>
            \A s \in DOMAIN connections :
                connections[s].isAlive => s \in DOMAIN connections']_vars
    /\ [][timeoutAt' # timeoutAt =>
            \A s \in DOMAIN connections :
                (connections[s].isAlive \/ pingAt > now) =>
                    /\ s \in DOMAIN connections'
                    /\ connections'[s] = connections[s]]_vars

\* both sweeps have run a second time over a connection that answered the
\* first probe: it is in the table, probed again
C36_Witness ==
    /\ now = 2 * pingInterval
    /\ timeoutAt = now + timeoutInterval
    /\ pingAt = now + pingInterval
    /\ \E s \in DOMAIN connections :
         /\ connections[s].lastPing = pingInterval
         /\ ~connections[s].isAlive
         /\ sockets[s].readyState = "OPEN"
         /\ sockets[s].removed = 0

\* A presenter who ends the session, or whose start failed, and starts
\* again: every start makes a new WebSocketServer.
NextRestart ==
    \/ StartTeacherServer
    \/ RestartTeacherServer
    \/ ListenOk
    \/ ListenError
    \/ ViewerConnects
    \/ OnPong
    \/ PeerClosing
    \/ Tick
    \/ ProbeSweep
    \/ TimeoutSweep
    \/ StopTeacherServer
    \/ AfterStop
    \/ GraceElapsed
    \/ WsServerClosed
    \/ HttpServerClosed
    \/ Return

SpecRestart == Init /\ [][NextRestart]_vars

C38_ClosedWereNotified ==
    /\ [][(\E k \in 1..2 : stopPc[k] = "grace") =>
            DOMAIN connections' \subseteq DOMAIN connections]_vars
    /\ [][(lastOp'.op = "grace elapsed" /\ lastOp'.ret = "disconnectAll") =>
            \A s \in OpenIds(connections, sockets) :
                Len(sockets[s].sent) < MaxSent =>
                    \E i \in 1..Len(sockets[s].sent) :
                        sockets[s].sent[i] =
                            ServerClosingMessage("Server is shutting down")]_vars

\* C39: the sync engine has at most one debounce timeout pending, the one its
\* debounceTimer field holds; while a timeout is pending the current
\* document is set, and the callback of a timeout never runs with
\* currentDocument cleared.
C39_OneTimerWithDocument ==
    /\ [](fileSync.timeouts <= 1)
    /\ [](fileSync.timeouts = 1 <=> fileSync.debounceTimer.state = "pending")
    /\ [](fileSync.timeouts > 0 => fileSync.currentDocument # "")
    /\ [][fileSync'.timeouts < fileSync.timeouts /\ lastOp'.op = "debounce"
            => fileSync.currentDocument # ""]_vars

\* the callback of a timeout that a second edit of the current document had
\* reset has run with the current document set, and no timeout is left
C39_Witness ==
    /\ lastOp.op = "debounce"
    /\ lastOp.document # ""
    /\ fileSync.currentDocument = lastOp.document
    /\ fileSync.debounceTimer.events = 2
    /\ fileSync.timeouts = 0

\* C40: an event for a connection whose entry has left the table changes
\* neither the table nor what was sent on any socket.  A pong, a message of
\* any kind (a ping included), an error and a unicast to the id leave the
\* table and every socket as they were; a close event, after which the
\* socket is gone, leaves the table and every other socket as they were.
C40_RemovedIdInert ==
    /\ [](\A s \in DOMAIN sockets \ DOMAIN connections :
            LET m == M(connections, sockets) IN
            /\ onPong(m, s, now) = m
            /\ updatePing(m, s, now) = m
            /\ removeConnection(m, s) =
                  [conns |-> connections, socks |-> sockets, ret |-> FALSE]
            /\ \A throws \in BOOLEAN :
                 /\ sendToClient(m, s, PongMessage, throws) =
                       [conns |-> connections, socks |-> sockets, ret |-> FALSE]
                 /\ \A rawMessage \in RawMessages, requireAuth \in BOOLEAN :
                      LET r == onMessage(m, s, rawMessage, requireAuth, now,
                                         throws)
                      IN  r.conns = connections /\ r.socks = sockets)
    /\ [][(/\ lastOp'.op \in {"message", "error"}
           /\ lastOp'.id \in DOMAIN sockets \ DOMAIN connections) =>
            connections' = connections /\ sockets' = sockets]_vars
    /\ [][(/\ lastOp'.op = "close"
           /\ lastOp'.id \in DOMAIN sockets \ DOMAIN connections) =>
            /\ connections' = connections
            /\ \A s \in DOMAIN sockets \ {lastOp'.id} :
                 s \in DOMAIN sockets' /\ sockets'[s] = sockets[s]]_vars

\* a ping message has arrived on a socket whose entry was removed before,
\* while another viewer is connected: no pong was sent and the socket has
\* no entry
C40_Witness ==
    /\ lastOp.op = "message"
    /\ lastOp.ret = "ping"
    /\ lastOp.send = "false"
    /\ lastOp.id \in DOMAIN sockets \ DOMAIN connections
    /\ sockets[lastOp.id].removed > 0
    /\ connections # EmptyMap

====
